---- MODULE Spec2Model ----
(***************************************************************************)
(* Board-state engine of movecat.py (class GoGameAnalyzer): the grid, the  *)
(* move history and the ko marker, with play_move and analyze_move.        *)
(*                                                                         *)
(* A behaviour is a construction (an empty grid plus AB/AW setup stones)   *)
(* followed by any sequence of play_move and analyze_move calls.  A call   *)
(* that returns something to its caller without a successful placement (a  *)
(* play_move that raises, an analyze_move) leaves what it returned in      *)
(* `probe` until the caller drops it (Return); `last` records the last     *)
(* successful placement with the state it started from.                    *)
(*                                                                         *)
(* process_sgf drives play_move from the main sequence of the SGF, one     *)
(* node per step.  The last part is the engine manager of katago_api.py    *)
(* (class KataGoManager): the threads that call query_analysis, the thread *)
(* that reads the engine's stdout, and the engine processes.               *)
(***************************************************************************)
EXTENDS Integers, Sequences, FiniteSets, TLC

\* ------------------------------------------------------------------ bounds
BoardSize    == 3   \* side of the grid the SGF file asks for
MaxSetup     == 2   \* Spec: at most this many AB/AW setup stones in the SGF root
MaxDeepSetup == 3   \* SpecDeep: the same, for the positions that need more stones
MaxMoves     == 2   \* calls are made while fewer placements than this succeeded
MinSize      == 2   \* SpecWide: the smallest grid it starts from
WideSize     == 7   \* SpecWide: the grid wide enough for two far-apart moves
ShapeSize    == 5   \* SpecShape: the grid that holds a shape around its centre
MaxShapeWhite == 1  \* SpecShape: at most this many white setup stones
MaxCoordSize == 25  \* SpecCoords: the largest grid whose coordinates are written
MaxTextLen   == 4   \* SpecCoords: the longest text given to parse_move_string
SetupRows    == 2   \* SpecRows: the setup stones lie in this many rows
MaxSgfSetup  == 2   \* SpecSgf: at most this many setup stones in the SGF root
MaxNodes     == 3   \* SpecSgf: the main sequence holds at most this many nodes
MaxThreads   == 2   \* SpecManager: the threads that call query_analysis, once each
MaxResponses == 2   \* SpecManager: an engine process writes at most this many lines
MaxCrashes   == 1   \* SpecManager: the engine dies by itself at most this many times
MaxFairResponses == 1  \* SpecManagerFair: an engine process writes at most this many lines

\* ------------------------------------------------------------------ values
Colors == {"b", "w"}
None   == <<>>                      \* Python's None (ko_point)
NoCall == [op |-> "none"]

Rows(n)  == 0 .. (n - 1)
Cells(n) == Rows(n) \X Rows(n)
\* Arguments (r, c) of a call: every cell, and one point beyond each of the
\* four limits the bounds test compares against.
OffBoard(n) == {<<-1, 0>>, <<0, -1>>, <<n, 0>>, <<0, n>>}
Points(n)   == Cells(n) \cup OffBoard(n)

\* game is the grid the setup stones of the SGF held by self.game give: what
\* the analyzer started from.
VARIABLES game, board_size, board, history, ko_point, last, probe

\* main_sequence is self.game.get_main_sequence(): the nodes process_sgf visits.
VARIABLE main_sequence

\* The fields of the KataGoManager (is_running, process, response_dict, lock),
\* the engine processes it has started, the threads reading their stdout, the
\* threads inside query_analysis and the thread that runs the lifespan.
VARIABLES is_running, process, response_dict, lock, engines, readers, callers, lifespan

analyzer == <<game, board_size, board, history, ko_point, last, probe>>

manager == <<is_running, process, response_dict, lock, engines, readers, callers,
             lifespan>>

vars == <<analyzer, main_sequence, manager>>

InBounds(n, r, c) == 0 <= r /\ r < n /\ 0 <= c /\ c < n

opponent(color) == IF color = "b" THEN "w" ELSE "b"

initialize_board(n) == [p \in Cells(n) |-> "."]

\* AB stones first, AW stones second (a cell named by both ends white); the
\* row of each is flipped.
place_setup_stones(n, b, AB, AW) ==
    LET flipped(S) == {<<(n - 1) - p[1], p[2]>> : p \in {q \in S : InBounds(n, q[1], q[2])}}
    IN [p \in Cells(n) |-> IF p \in flipped(AW) THEN "w"
                           ELSE IF p \in flipped(AB) THEN "b" ELSE b[p]]

\* ------------------------------------------------------------ group search
deltas == << <<0, 1>>, <<0, -1>>, <<1, 0>>, <<-1, 0>> >>

\* Mutant of get_neighbors: the neighbour in the row above is left out.
get_neighbors_no_up(n, r, c) ==
    SelectSeq([i \in 1 .. 3 |-> <<r + deltas[i][1], c + deltas[i][2]>>],
              LAMBDA p : InBounds(n, p[1], p[2]))

get_neighbors(n, r, c) ==
    SelectSeq([i \in 1 .. 4 |-> <<r + deltas[i][1], c + deltas[i][2]>>],
              LAMBDA p : InBounds(n, p[1], p[2]))

\* The inner for-loop of _find_group over the neighbours of the popped cell.
RECURSIVE scan_neighbors(_, _, _, _)
scan_neighbors(b, color, ns, acc) ==
    IF ns = <<>> THEN acc
    ELSE LET p == Head(ns)
             nxt == IF b[p] = "."
                      THEN [acc EXCEPT !.liberties = @ \cup {p}]
                    ELSE IF b[p] = color /\ p \notin acc.visited
                      THEN [acc EXCEPT !.visited = @ \cup {p},
                                       !.group = @ \cup {p},
                                       !.q = Append(@, p)]
                    ELSE acc
         IN scan_neighbors(b, color, Tail(ns), nxt)

\* The while-loop of _find_group: pop the queue's head until it is empty.
RECURSIVE bfs(_, _, _, _)
bfs(n, b, color, acc) ==
    IF acc.q = <<>> THEN acc
    ELSE LET curr == Head(acc.q)
         IN bfs(n, b, color,
                scan_neighbors(b, color, get_neighbors(n, curr[1], curr[2]),
                               [acc EXCEPT !.q = Tail(@)]))

\* Mutant of find_group: only the first cell is popped from the queue.
find_group_first_pop(n, b, r, c, color, visited) ==
    IF <<r, c>> \in visited \/ b[<<r, c>>] # color
      THEN [found |-> FALSE, group |-> {}, liberties |-> {}, visited |-> visited]
      ELSE LET res == scan_neighbors(b, color, get_neighbors(n, r, c),
                          [q |-> <<>>, visited |-> visited \cup {<<r, c>>},
                           group |-> {<<r, c>>}, liberties |-> {}])
           IN [found |-> TRUE, group |-> res.group, liberties |-> res.liberties,
               visited |-> res.visited]

\* (group, liberties) and the visited set it leaves. found = FALSE stands for
\* the (None, None) returned when the cell is visited or not of `color`.
find_group(n, b, r, c, color, visited) ==
    IF <<r, c>> \in visited \/ b[<<r, c>>] # color
      THEN [found |-> FALSE, group |-> {}, liberties |-> {}, visited |-> visited]
      ELSE LET res == bfs(n, b, color,
                          [q |-> << <<r, c>> >>, visited |-> visited \cup {<<r, c>>},
                           group |-> {<<r, c>>}, liberties |-> {}])
           IN [found |-> TRUE, group |-> res.group, liberties |-> res.liberties,
               visited |-> res.visited]

\* list(group): the stones of a set in some order.
RECURSIVE SetToSeq(_)
SetToSeq(S) ==
    IF S = {} THEN <<>>
    ELSE LET x == CHOOSE y \in S : TRUE IN <<x>> \o SetToSeq(S \ {x})

\* The cells in the order of the two nested range() loops: row by row.
CellSeq(n) == [i \in 1 .. n * n |-> <<(i - 1) \div n, (i - 1) % n>>]

\* Mutant of census_loop: every _find_group call gets a visited set of its own.
RECURSIVE census_loop_fresh(_, _, _, _, _)
census_loop_fresh(n, b, cells, visited, groups) ==
    IF cells = <<>> THEN groups
    ELSE LET p == Head(cells)
         IN IF b[p] # "."
              THEN LET color_name == IF b[p] = "b" THEN "black" ELSE "white"
                       g == find_group(n, b, p[1], p[2], b[p], {})
                   IN census_loop_fresh(n, b, Tail(cells), visited,
                        [groups EXCEPT ![color_name] =
                            Append(@, [group |-> g.group,
                                       liberties |-> Cardinality(g.liberties)])])
              ELSE census_loop_fresh(n, b, Tail(cells), visited, groups)

\* The nested loops of get_groups_and_liberties: one _find_group per occupied
\* cell not yet visited, all calls sharing one visited set.
RECURSIVE census_loop(_, _, _, _, _)
census_loop(n, b, cells, visited, groups) ==
    IF cells = <<>> THEN groups
    ELSE LET p == Head(cells)
         IN IF b[p] # "." /\ p \notin visited
              THEN LET color_name == IF b[p] = "b" THEN "black" ELSE "white"
                       g == find_group(n, b, p[1], p[2], b[p], visited)
                   IN census_loop(n, b, Tail(cells), g.visited,
                        IF g.found /\ g.group # {}
                          THEN [groups EXCEPT ![color_name] =
                                  Append(@, [group |-> g.group,
                                             liberties |-> Cardinality(g.liberties)])]
                          ELSE groups)
              ELSE census_loop(n, b, Tail(cells), visited, groups)

get_groups_and_liberties(n, b) ==
    census_loop(n, b, CellSeq(n), {}, [black |-> <<>>, white |-> <<>>])

\* ---------------------------------------------------------------- capture
\* Mutant of capture_loop: a group in atari (one liberty left) is removed too.
RECURSIVE capture_loop_atari(_, _, _, _, _)
capture_loop_atari(n, b, opp, ns, captured) ==
    IF ns = <<>> THEN [board |-> b, captured |-> captured]
    ELSE LET p == Head(ns)
             g == find_group(n, b, p[1], p[2], opp, {})
         IN IF b[p] = opp /\ g.found /\ Cardinality(g.liberties) <= 1
              THEN capture_loop_atari(n, [x \in DOMAIN b |-> IF x \in g.group THEN "." ELSE b[x]],
                                      opp, Tail(ns), captured \o SetToSeq(g.group))
              ELSE capture_loop_atari(n, b, opp, Tail(ns), captured)

\* Mutant of capture_loop: the loop ends at the first group it removes.
RECURSIVE capture_loop_first_only(_, _, _, _, _)
capture_loop_first_only(n, b, opp, ns, captured) ==
    IF ns = <<>> THEN [board |-> b, captured |-> captured]
    ELSE LET p == Head(ns)
             g == find_group(n, b, p[1], p[2], opp, {})
         IN IF b[p] = opp /\ g.found /\ g.liberties = {}
              THEN [board |-> [x \in DOMAIN b |-> IF x \in g.group THEN "." ELSE b[x]],
                    captured |-> captured \o SetToSeq(g.group)]
              ELSE capture_loop_first_only(n, b, opp, Tail(ns), captured)

\* Mutant of capture_loop: the captured stones are listed and left on the grid.
RECURSIVE capture_loop_keeps_stones(_, _, _, _, _)
capture_loop_keeps_stones(n, b, opp, ns, captured) ==
    IF ns = <<>> THEN [board |-> b, captured |-> captured]
    ELSE LET p == Head(ns)
             g == find_group(n, b, p[1], p[2], opp, {})
         IN IF b[p] = opp /\ g.found /\ g.liberties = {}
              THEN capture_loop_keeps_stones(n, b, opp, Tail(ns),
                                             captured \o SetToSeq(g.group))
              ELSE capture_loop_keeps_stones(n, b, opp, Tail(ns), captured)

\* The for-loop of _handle_captures over the neighbours of the placed stone:
\* each zero-liberty opposing group is removed as it is met.
RECURSIVE capture_loop(_, _, _, _, _)
capture_loop(n, b, opp, ns, captured) ==
    IF ns = <<>> THEN [board |-> b, captured |-> captured]
    ELSE LET p == Head(ns)
             g == find_group(n, b, p[1], p[2], opp, {})
         IN IF b[p] = opp /\ g.found /\ g.liberties = {}
              THEN capture_loop(n, [x \in DOMAIN b |-> IF x \in g.group THEN "." ELSE b[x]],
                                opp, Tail(ns), captured \o SetToSeq(g.group))
              ELSE capture_loop(n, b, opp, Tail(ns), captured)

\* _handle_captures on grid b, which already holds the stone at (r, c).
handle_captures(n, b, r, c, color) ==
    capture_loop(n, b, opponent(color), get_neighbors(n, r, c), <<>>)

\* ------------------------------------------------------------- play_move
\* Mutant of play_check: the ko test is missing.
play_check_no_ko(n, b, ko, r, c) ==
    IF ~InBounds(n, r, c) THEN "outside"
    ELSE IF b[<<r, c>>] # "." THEN "occupied"
    ELSE "none"

\* Mutant of play_check: the ko test compares (c, r) with the marker.
play_check_ko_swapped(n, b, ko, r, c) ==
    IF ~InBounds(n, r, c) THEN "outside"
    ELSE IF b[<<r, c>>] # "." THEN "occupied"
    ELSE IF <<c, r>> = ko THEN "ko"
    ELSE "none"

\* The three tests play_move makes before it touches anything: the kind of
\* ValueError it raises, or "none".
play_check(n, b, ko, r, c) ==
    IF ~InBounds(n, r, c) THEN "outside"
    ELSE IF b[<<r, c>>] # "." THEN "occupied"
    ELSE IF <<r, c>> = ko THEN "ko"
    ELSE "none"

\* Mutant of ko_after: any capture sets the marker, not only a single stone.
ko_after_any(captured_stones) ==
    IF Len(captured_stones) >= 1 THEN captured_stones[1] ELSE None

\* The ko marker play_move leaves, from the list _handle_captures returned.
ko_after(captured_stones) ==
    IF Len(captured_stones) = 1 THEN captured_stones[1] ELSE None

\* Mutant of play_move: the ko test is made after the stone is put down.
play_move_ko_test_late(n, b, ko, h, r, c, color) ==
    IF ~InBounds(n, r, c)
      THEN [err |-> "outside", board |-> b, ko_point |-> ko, history |-> h,
            captured |-> <<>>]
    ELSE IF b[<<r, c>>] # "."
      THEN [err |-> "occupied", board |-> b, ko_point |-> ko, history |-> h,
            captured |-> <<>>]
    ELSE LET placed == [b EXCEPT ![<<r, c>>] = color]
             hc == handle_captures(n, placed, r, c, color)
         IN IF <<r, c>> = ko
              THEN [err |-> "ko", board |-> placed, ko_point |-> ko, history |-> h,
                    captured |-> <<>>]
              ELSE [err |-> "none", board |-> hc.board,
                    ko_point |-> ko_after(hc.captured),
                    history |-> Append(h, << <<r, c>>, color >>),
                    captured |-> hc.captured]

\* Mutant of play_move: without a single capture the old marker is kept.
play_move_keeps_marker(n, b, ko, h, r, c, color) ==
    LET err == play_check(n, b, ko, r, c)
    IN IF err # "none"
         THEN [err |-> err, board |-> b, ko_point |-> ko, history |-> h,
               captured |-> <<>>]
         ELSE LET placed == [b EXCEPT ![<<r, c>>] = color]
                  hc == handle_captures(n, placed, r, c, color)
              IN [err |-> "none", board |-> hc.board,
                  ko_point |-> IF Len(hc.captured) = 1 THEN hc.captured[1] ELSE ko,
                  history |-> Append(h, << <<r, c>>, color >>),
                  captured |-> hc.captured]

\* Mutant of play_move: the marker is the cell of the capturing stone.
play_move_marks_placed(n, b, ko, h, r, c, color) ==
    LET err == play_check(n, b, ko, r, c)
    IN IF err # "none"
         THEN [err |-> err, board |-> b, ko_point |-> ko, history |-> h,
               captured |-> <<>>]
         ELSE LET placed == [b EXCEPT ![<<r, c>>] = color]
                  hc == handle_captures(n, placed, r, c, color)
              IN [err |-> "none", board |-> hc.board,
                  ko_point |-> IF Len(hc.captured) = 1 THEN <<r, c>> ELSE None,
                  history |-> Append(h, << <<r, c>>, color >>),
                  captured |-> hc.captured]

\* Mutant of play_move: a placed group left without a liberty is taken off.
play_move_removes_suicide(n, b, ko, h, r, c, color) ==
    LET err == play_check(n, b, ko, r, c)
    IN IF err # "none"
         THEN [err |-> err, board |-> b, ko_point |-> ko, history |-> h,
               captured |-> <<>>]
         ELSE LET placed == [b EXCEPT ![<<r, c>>] = color]
                  hc == handle_captures(n, placed, r, c, color)
                  own == find_group(n, hc.board, r, c, color, {})
              IN [err |-> "none",
                  board |-> IF own.liberties = {}
                              THEN [x \in DOMAIN b |->
                                      IF x \in own.group THEN "." ELSE hc.board[x]]
                              ELSE hc.board,
                  ko_point |-> ko_after(hc.captured),
                  history |-> Append(h, << <<r, c>>, color >>),
                  captured |-> hc.captured]

\* Mutant of play_move: a refused move is recorded in the history as well.
play_move_logs_refused(n, b, ko, h, r, c, color) ==
    LET err == play_check(n, b, ko, r, c)
    IN IF err # "none"
         THEN [err |-> err, board |-> b, ko_point |-> ko,
               history |-> Append(h, << <<r, c>>, color >>), captured |-> <<>>]
         ELSE LET placed == [b EXCEPT ![<<r, c>>] = color]
                  hc == handle_captures(n, placed, r, c, color)
              IN [err |-> "none",
                  board |-> hc.board,
                  ko_point |-> ko_after(hc.captured),
                  history |-> Append(h, << <<r, c>>, color >>),
                  captured |-> hc.captured]

\* Mutant of play_move: the stone is placed and nothing is captured.
play_move_no_capture(n, b, ko, h, r, c, color) ==
    LET err == play_check(n, b, ko, r, c)
    IN IF err # "none"
         THEN [err |-> err, board |-> b, ko_point |-> ko, history |-> h,
               captured |-> <<>>]
         ELSE [err |-> "none",
               board |-> [b EXCEPT ![<<r, c>>] = color],
               ko_point |-> None,
               history |-> Append(h, << <<r, c>>, color >>),
               captured |-> <<>>]

\* Mutant of play_move: a move that captures nothing leaves the marker alone.
play_move_quiet_keeps_marker(n, b, ko, h, r, c, color) ==
    LET err == play_check(n, b, ko, r, c)
    IN IF err # "none"
         THEN [err |-> err, board |-> b, ko_point |-> ko, history |-> h,
               captured |-> <<>>]
         ELSE LET placed == [b EXCEPT ![<<r, c>>] = color]
                  hc == handle_captures(n, placed, r, c, color)
              IN [err |-> "none", board |-> hc.board,
                  ko_point |-> IF hc.captured = <<>> THEN ko
                               ELSE ko_after(hc.captured),
                  history |-> Append(h, << <<r, c>>, color >>),
                  captured |-> hc.captured]

\* Mutant of play_move: after the captures every opposing group of the grid
\* that has no liberty is taken off, wherever it lies.
play_move_sweeps_board(n, b, ko, h, r, c, color) ==
    LET err == play_check(n, b, ko, r, c)
    IN IF err # "none"
         THEN [err |-> err, board |-> b, ko_point |-> ko, history |-> h,
               captured |-> <<>>]
         ELSE LET placed == [b EXCEPT ![<<r, c>>] = color]
                  hc == handle_captures(n, placed, r, c, color)
                  opp == opponent(color)
                  swept == {x \in DOMAIN b :
                              /\ hc.board[x] = opp
                              /\ find_group(n, hc.board, x[1], x[2], opp, {}).liberties = {}}
              IN [err |-> "none",
                  board |-> [x \in DOMAIN b |-> IF x \in swept THEN "." ELSE hc.board[x]],
                  ko_point |-> ko_after(hc.captured),
                  history |-> Append(h, << <<r, c>>, color >>),
                  captured |-> hc.captured]

\* The outcome of play_move(r, c, color) in state (b, ko, h): err is "none"
\* when it returns and the kind of ValueError when it raises; board, ko_point
\* and history are the state the call leaves.
play_move(n, b, ko, h, r, c, color) ==
    LET err == play_check(n, b, ko, r, c)
    IN IF err # "none"
         THEN [err |-> err, board |-> b, ko_point |-> ko, history |-> h,
               captured |-> <<>>]
         ELSE LET placed == [b EXCEPT ![<<r, c>>] = color]
                  hc == handle_captures(n, placed, r, c, color)
              IN [err |-> "none",
                  board |-> hc.board,
                  ko_point |-> ko_after(hc.captured),
                  history |-> Append(h, << <<r, c>>, color >>),
                  captured |-> hc.captured]

\* --------------------------------------------------------- move analysis
\* Mutant of check_pattern: an offset that falls outside the grid is skipped.
check_pattern_skips_outside(n, b, r, c, color, patterns) ==
    \A i \in 1 .. Len(patterns) :
        LET pr == r + patterns[i][1]
            pc == c + patterns[i][2]
        IN InBounds(n, pr, pc) => b[<<pr, pc>>] = color

\* Mutant of check_pattern: only the upper limits are tested, and a negative
\* row or column indexes the grid from its far end.
check_pattern_wraps(n, b, r, c, color, patterns) ==
    \A i \in 1 .. Len(patterns) :
        LET pr == r + patterns[i][1]
            pc == c + patterns[i][2]
        IN /\ -n <= pr /\ pr < n /\ -n <= pc /\ pc < n
           /\ b[<<(pr + n) % n, (pc + n) % n>>] = color

check_pattern(n, b, r, c, color, patterns) ==
    \A i \in 1 .. Len(patterns) :
        LET pr == r + patterns[i][1]
            pc == c + patterns[i][2]
        IN InBounds(n, pr, pc) /\ b[<<pr, pc>>] = color

is_peep(n, b, r, c, color) ==
    LET opp == opponent(color)
        here == << <<0, 0>> >>
    IN \/ check_pattern(n, b, r - 1, c, opp, here) /\ check_pattern(n, b, r + 1, c, opp, here)
       \/ check_pattern(n, b, r, c - 1, opp, here) /\ check_pattern(n, b, r, c + 1, opp, here)

completes_bamboo_joint(n, b, r, c, color) ==
    \/ check_pattern(n, b, r, c, color, << <<0, -2>>, <<1, 0>>, <<1, -2>> >>)
    \/ check_pattern(n, b, r, c, color, << <<0, -2>>, <<-1, 0>>, <<-1, -2>> >>)
    \/ check_pattern(n, b, r, c, color, << <<0, 2>>, <<1, 0>>, <<1, 2>> >>)
    \/ check_pattern(n, b, r, c, color, << <<0, 2>>, <<-1, 0>>, <<-1, 2>> >>)
    \/ check_pattern(n, b, r, c, color, << <<-2, 0>>, <<0, 1>>, <<-2, 1>> >>)
    \/ check_pattern(n, b, r, c, color, << <<-2, 0>>, <<0, -1>>, <<-2, -1>> >>)
    \/ check_pattern(n, b, r, c, color, << <<2, 0>>, <<0, 1>>, <<2, 1>> >>)
    \/ check_pattern(n, b, r, c, color, << <<2, 0>>, <<0, -1>>, <<2, -1>> >>)

completes_empty_triangle(n, b, r, c, color) ==
    \/ check_pattern(n, b, r, c, color, << <<0, -1>>, <<-1, 0>> >>)
    \/ check_pattern(n, b, r, c, color, << <<-1, 0>>, <<0, 1>> >>)
    \/ check_pattern(n, b, r, c, color, << <<0, 1>>, <<1, 0>> >>)
    \/ check_pattern(n, b, r, c, color, << <<1, 0>>, <<0, -1>> >>)

completes_tiger_mouth(n, b, r, c, color) ==
    \/ check_pattern(n, b, r, c, color, << <<-1, -1>>, <<1, -1>> >>)
    \/ check_pattern(n, b, r, c, color, << <<-1, 1>>, <<1, 1>> >>)
    \/ check_pattern(n, b, r, c, color, << <<1, -1>>, <<1, 1>> >>)
    \/ check_pattern(n, b, r, c, color, << <<-1, -1>>, <<-1, 1>> >>)

one_point_jump(n, b, r, c, color) ==
    /\ check_pattern(n, b, r, c, color, << <<-2, 0>>, <<2, 0>>, <<0, -2>>, <<0, 2>> >>)
    /\ ~check_pattern(n, b, r, c, color, << <<-1, 0>>, <<1, 0>>, <<0, -1>>, <<0, 1>> >>)

knights_move(n, b, r, c, color) ==
    check_pattern(n, b, r, c, color,
                  << <<1, 2>>, <<1, -2>>, <<-1, 2>>, <<-1, -2>>,
                     <<2, 1>>, <<2, -1>>, <<-2, 1>>, <<-2, -1>> >>)

diagonal(n, b, r, c, color) ==
    check_pattern(n, b, r, c, color, << <<1, 1>>, <<1, -1>>, <<-1, 1>>, <<-1, -1>> >>)

\* Mutant of TenukiThreshold: the squared distance of five intersections.
TenukiThresholdFive == 5 * 5

TenukiThreshold == 50

\* Mutant of temp_board_ref: temp_board is the live grid itself (no copy).
temp_board_alias == "live"

\* The object temp_board names: the list built by [row[:] for row in
\* self.board] is a new grid ("temp"), not the live one ("live").
temp_board_ref == "temp"

\* The cells of a sequence of cells.
Range(s) == {s[i] : i \in 1 .. Len(s)}

\* Mutant of analyze_check: the ko test is missing.
analyze_check_no_ko(n, b, ko, r, c) ==
    IF ~InBounds(n, r, c) THEN "outside"
    ELSE IF b[<<r, c>>] # "." THEN "occupied"
    ELSE "none"

\* The three early returns of analyze_move: the kind of error result, or
\* "none".
analyze_check(n, b, ko, r, c) ==
    IF ~InBounds(n, r, c) THEN "outside"
    ELSE IF b[<<r, c>>] # "." THEN "occupied"
    ELSE IF <<r, c>> = ko THEN "ko"
    ELSE "none"

\* Mutant of starts_ko_test: the size of the placed stone's group is not tested.
starts_ko_any_group(captured_stones, own_group, own_liberties_set) ==
    /\ Len(captured_stones) = 1
    /\ Cardinality(own_liberties_set) = 1
    /\ own_liberties_set = {captured_stones[1]}

\* The test of analyze_move that sets starts_ko.
starts_ko_test(captured_stones, own_group, own_liberties_set) ==
    /\ Len(captured_stones) = 1
    /\ Cardinality(own_group) = 1
    /\ Cardinality(own_liberties_set) = 1
    /\ own_liberties_set = {captured_stones[1]}

\* Mutant of self_atari_test: a capture does not clear the flag.
self_atari_despite_capture(own_liberties, captured_stones) ==
    own_liberties = 1

\* The test of analyze_move that sets self_atari.
self_atari_test(own_liberties, captured_stones) ==
    own_liberties = 1 /\ captured_stones = <<>>

\* Mutant of neighbor_groups: every neighbouring stone counts for itself.
neighbor_groups_per_stone(n, b, nbrs, color) ==
    {{p} : p \in {q \in Range(nbrs) : b[q] = color}}

\* The set of frozensets analyze_move collects: the groups on grid b of the
\* neighbours that hold a stone of `color`.
neighbor_groups(n, b, nbrs, color) ==
    {find_group(n, b, p[1], p[2], color, {}).group :
        p \in {q \in Range(nbrs) : b[q] = color}}

\* Mutant of throw_in_test: one opposing neighbour is enough.
throw_in_some_neighbor(self_atari, nbrs, b, opp) ==
    self_atari /\ Len(SelectSeq(nbrs, LAMBDA p : b[p] = opp)) > 0

\* The test of analyze_move that sets throw_in: self_atari, and as many
\* neighbours holding an opposing stone on grid b as there are neighbours.
throw_in_test(self_atari, nbrs, b, opp) ==
    self_atari /\ Len(nbrs) = Len(SelectSeq(nbrs, LAMBDA p : b[p] = opp))

\* analyze_move(r, c, color) in state (b, ko, h).  result is the mapping the
\* call returns, live the grid self.board holds when it returns, scratch
\* the grid temp_board holds then.
analyze_move(n, b, ko, h, r, c, color) ==
    IF analyze_check(n, b, ko, r, c) # "none"
      THEN [result |-> [error |-> analyze_check(n, b, ko, r, c)],
            live |-> b, scratch |-> b]
    ELSE
      LET tref == temp_board_ref
          heap0 == [live |-> b, temp |-> b]
          heap1 == [heap0 EXCEPT ![tref] = [@ EXCEPT ![<<r, c>>] = color]]
          hc == handle_captures(n, heap1[tref], r, c, color)
          heap2 == [heap1 EXCEPT ![tref] = hc.board]
          self_board == heap2.live
          temp == heap2[tref]
          captured_stones == hc.captured
          own == find_group(n, temp, r, c, color, {})
          own_liberties == Cardinality(own.liberties)
          opp == opponent(color)
          nbrs == get_neighbors(n, r, c)
          suicide == own_liberties = 0 /\ captured_stones = <<>>
          basic == [capture |-> Len(captured_stones) > 0,
                    connects |-> FALSE, cuts |-> FALSE, atari |-> FALSE,
                    self_atari |-> FALSE, suicide |-> suicide,
                    starts_ko |-> FALSE, takes_ko |-> (<<r, c>> = ko),
                    tenuki |-> FALSE]
          self_atari == self_atari_test(own_liberties, captured_stones)
          atari == \E i \in 1 .. Len(nbrs) :
                      /\ temp[nbrs[i]] = opp
                      /\ Cardinality(find_group(n, temp, nbrs[i][1], nbrs[i][2],
                                                opp, {}).liberties) = 1
          friendly_groups == neighbor_groups(n, self_board, nbrs, color)
          opponent_groups == neighbor_groups(n, self_board, nbrs, opp)
          throw_in == throw_in_test(self_atari, nbrs, self_board, opp)
          starts_ko == starts_ko_test(captured_stones, own.group, own.liberties)
          tenuki == /\ h # <<>>
                    /\ LET last_move == h[Len(h)][1]
                       IN (r - last_move[1]) * (r - last_move[1])
                          + (c - last_move[2]) * (c - last_move[2]) > TenukiThreshold
          full == [capture |-> basic.capture,
                   connects |-> Cardinality(friendly_groups) > 1,
                   cuts |-> Cardinality(opponent_groups) > 1,
                   atari |-> atari,
                   self_atari |-> self_atari,
                   suicide |-> basic.suicide,
                   starts_ko |-> starts_ko,
                   takes_ko |-> basic.takes_ko,
                   tenuki |-> tenuki,
                   peep |-> is_peep(n, self_board, r, c, color),
                   completes_empty_triangle |->
                       completes_empty_triangle(n, self_board, r, c, color),
                   completes_tiger_mouth |->
                       completes_tiger_mouth(n, self_board, r, c, color),
                   completes_bamboo_joint |->
                       completes_bamboo_joint(n, self_board, r, c, color),
                   one_point_jump |-> one_point_jump(n, self_board, r, c, color),
                   knights_move |-> knights_move(n, self_board, r, c, color),
                   diagonal |-> diagonal(n, self_board, r, c, color),
                   throw_in |-> throw_in]
      IN [result |-> IF suicide THEN basic ELSE full,
          live |-> self_board, scratch |-> temp]

\* ------------------------------------------------------- coordinate text
\* A text is a sequence of one-character strings.
\* The characters from 'A' on, in code order: chr(ord('A') + k) is AsciiFromA[k + 1]
\* (far enough for every column of a grid of side 26).
AsciiFromA ==
    <<"A", "B", "C", "D", "E", "F", "G", "H", "I", "J", "K", "L", "M",
      "N", "O", "P", "Q", "R", "S", "T", "U", "V", "W", "X", "Y", "Z", "[">>

LowerCase ==
    <<"a", "b", "c", "d", "e", "f", "g", "h", "i", "j", "k", "l", "m",
      "n", "o", "p", "q", "r", "s", "t", "u", "v", "w", "x", "y", "z">>

DigitChars == <<"0", "1", "2", "3", "4", "5", "6", "7", "8", "9">>

Whitespace == {" "}

\* The "abcdefghjklmnopqrstuvwxyz" of parse_move_string: no 'i'.
col_letters == SelectSeq(LowerCase, LAMBDA ch : ch # "i")

\* The position of x in sequence s (x is in s).
IndexOf(s, x) == CHOOSE i \in 1 .. Len(s) : s[i] = x

\* str.lower()
lower(text) ==
    [i \in 1 .. Len(text) |->
        IF \E k \in 1 .. 26 : AsciiFromA[k] = text[i]
          THEN LowerCase[IndexOf(AsciiFromA, text[i])]
          ELSE text[i]]

\* str.strip()
RECURSIVE lstrip(_)
lstrip(text) ==
    IF text # <<>> /\ Head(text) \in Whitespace THEN lstrip(Tail(text)) ELSE text

RECURSIVE rstrip(_)
rstrip(text) ==
    IF text # <<>> /\ text[Len(text)] \in Whitespace
      THEN rstrip(SubSeq(text, 1, Len(text) - 1))
      ELSE text

strip(text) == rstrip(lstrip(text))

\* str.isdigit()
isdigit(text) ==
    /\ text # <<>>
    /\ \A i \in 1 .. Len(text) : \E d \in 1 .. 10 : DigitChars[d] = text[i]

\* int() of a text of digits
RECURSIVE int(_)
int(text) ==
    IF text = <<>> THEN 0
    ELSE 10 * int(SubSeq(text, 1, Len(text) - 1))
           + (IndexOf(DigitChars, text[Len(text)]) - 1)

\* str() of a natural number
RECURSIVE str(_)
str(k) ==
    IF k < 10 THEN <<DigitChars[k + 1]>>
    ELSE str(k \div 10) \o <<DigitChars[(k % 10) + 1]>>

\* The first k elements of s, as the slice s[:k] takes them.
Prefix(s, k) == SubSeq(s, 1, IF k < Len(s) THEN k ELSE Len(s))

\* parse_move_string(move_str, board_size): err is the ValueError it raises
\* ("none" when it returns (row, col)).
parse_move_string(move_str, n) ==
    LET t == strip(lower(move_str))
        failed(kind) == [err |-> kind, row |-> 0, col |-> 0]
    IN IF ~(2 <= Len(t) /\ Len(t) <= 3) THEN failed("format")
       ELSE LET col_char == t[1]
                row_str == Tail(t)
            IN IF ~\E i \in 1 .. Len(Prefix(col_letters, n)) : col_letters[i] = col_char
                 THEN failed("column")
               ELSE IF ~isdigit(row_str) THEN failed("row")
               ELSE LET col == IndexOf(col_letters, col_char) - 1
                        row == n - int(row_str)
                    IN IF ~(0 <= col /\ col < n /\ 0 <= row /\ row < n)
                         THEN failed("outside")
                         ELSE [err |-> "none", row |-> row, col |-> col]

\* Mutant of coords_to_gtp: the letter I is not skipped.
coords_to_gtp_with_i(row, col, size) ==
    <<AsciiFromA[col + 1]>> \o str(size - row)

\* coords_to_gtp(row, col, size) of another_analysis_script.py
coords_to_gtp(row, col, size) ==
    <<AsciiFromA[col + (IF col >= 8 THEN 1 ELSE 0) + 1]>> \o str(size - row)

\* The label draw_board prints before row r (f"{row_label:02d}") and the
\* letter it prints above column c.
draw_board_row_label(n, r) ==
    IF n - r < 10 THEN <<"0">> \o str(n - r) ELSE str(n - r)

draw_board_col_letter(c) == SelectSeq(AsciiFromA, LAMBDA ch : ch # "I")[c + 1]

\* ------------------------------------------------------ SGF main sequence
\* node.get_move() of the nodes of the main sequence: (colour, (row, col)) for
\* a move, (colour, None) for a pass, (None, None) for a node without a move
\* (the root).  Rows are the SGF's: row 0 is the bottom row.
NoColor == "-"                      \* Python's None where a colour is expected

NoMove == [color |-> NoColor, move |-> None]

PassNode(color) == [color |-> color, move |-> None]

MoveNode(color, p) == [color |-> color, move |-> p]

\* The main sequence of an SGF that holds its root node only.
RootOnly == <<NoMove>>

\* `if color and move`: None is false, a colour and a (row, col) pair are true.
color_and_move(node) == node.color # NoColor /\ node.move # None

\* Mutant of loop_body: a pass lifts the ko marker.
loop_body_pass_lifts_ko(n, st, node) ==
    IF color_and_move(node)
      THEN LET row == node.move[1]
               col == node.move[2]
               flipped_row == (n - 1) - row
               res == play_move(n, st.board, st.ko_point, st.history,
                                flipped_row, col, node.color)
           IN [state |-> [board |-> res.board, ko_point |-> res.ko_point,
                          history |-> res.history],
               break |-> res.err # "none"]
      ELSE [state |-> IF node.color # NoColor
                        THEN [st EXCEPT !.ko_point = None] ELSE st,
            break |-> FALSE]

\* Mutant of loop_body: a rejected move is reported and the loop goes on.
loop_body_no_break(n, st, node) ==
    IF color_and_move(node)
      THEN LET row == node.move[1]
               col == node.move[2]
               flipped_row == (n - 1) - row
               res == play_move(n, st.board, st.ko_point, st.history,
                                flipped_row, col, node.color)
           IN [state |-> [board |-> res.board, ko_point |-> res.ko_point,
                          history |-> res.history],
               break |-> FALSE]
      ELSE [state |-> st, break |-> FALSE]

\* One turn of the for loop of process_sgf on a node, from the state
\* st = (board, ko_point, history): the state it leaves, and whether it leaves
\* the loop.
loop_body(n, st, node) ==
    IF color_and_move(node)
      THEN LET row == node.move[1]
               col == node.move[2]
               flipped_row == (n - 1) - row
               res == play_move(n, st.board, st.ko_point, st.history,
                                flipped_row, col, node.color)
           IN [state |-> [board |-> res.board, ko_point |-> res.ko_point,
                          history |-> res.history],
               break |-> res.err # "none"]
      ELSE [state |-> st, break |-> FALSE]

\* ---------------------------------------------------------- engine manager
Threads   == 1 .. MaxThreads
NoThread  == 0                      \* the lock is free
NoProcess == 0                      \* self.process is None
NoId      == 0                      \* no query id

\* A line of the engine's stdout once json.loads has read it: the id it
\* carries, whether it holds an "error" field, and its isDuringSearch field
\* (a JSON boolean, or absent).
NoResponse == [id |-> NoId, error |-> FALSE, isDuringSearch |-> "absent"]

ResponseShapes ==
    { [error |-> FALSE, isDuringSearch |-> "true"],
      [error |-> FALSE, isDuringSearch |-> "absent"],
      [error |-> FALSE, isDuringSearch |-> "false"],
      [error |-> TRUE,  isDuringSearch |-> "absent"],
      [error |-> TRUE,  isDuringSearch |-> "false"] }

ResponseLine(id, shape) ==
    [id |-> id, error |-> shape.error, isDuringSearch |-> shape.isDuringSearch]

\* A Python dict as a function: d[k] = v, del d[k], the empty dict.
EmptyDict == [k \in {} |-> NoResponse]

DictSet(d, k, v) == [x \in DOMAIN d \cup {k} |-> IF x = k THEN v ELSE d[x]]

DictDel(d, k) == [x \in DOMAIN d \ {k} |-> d[x]]

\* A process Popen has just started: alive, nothing written to its stdin
\* (pending: written and not flushed; received: what the engine has read),
\* nothing on its stdout, no line written yet.
NewProcess ==
    [live |-> TRUE, crashed |-> FALSE, pending |-> <<>>, received |-> {},
     stdout |-> <<>>, sent |-> 0]

\* A thread target=self._read_stdout just started.
NewReader == [pc |-> "loop", handle |-> NoProcess]

\* A thread that has not called query_analysis yet.
IdleCaller ==
    [pc |-> "idle", query_id |-> NoId, expired |-> FALSE, outcome |-> "none",
     response |-> NoResponse]

\* __init__ of KataGoManager, and the threads before they do anything.
Constructed ==
    /\ is_running = FALSE
    /\ process = NoProcess
    /\ response_dict = EmptyDict
    /\ lock = NoThread
    /\ engines = <<>>
    /\ readers = <<>>
    /\ callers = [t \in Threads |-> IdleCaller]
    /\ lifespan = "startup"

\* start_engine returns at once when the engine is running.
start_engine_returns(running) == running

\* stop_engine returns at once when the engine is not running or was never
\* started.
stop_engine_returns(running, proc) == ~running \/ proc = NoProcess

\* Mutant of acquire: the with block is entered whoever holds the lock.
acquire_unlocked(holder) == TRUE

\* `with self.lock` is entered when no thread holds the lock.
acquire(holder) == holder = NoThread

\* _read_stdout on a line it has read: the response is stored under the id it
\* carries, with or without an "error" field; a line without an id is dropped.
read_stdout_store(dict, response) ==
    IF response.id # NoId THEN DictSet(dict, response.id, response) ELSE dict

\* Mutant of still_waiting: the loop does not look at the clock.
still_waiting_forever(expired) == TRUE

\* The condition of the while loop of query_analysis: fewer than `timeout`
\* seconds have passed since the request was flushed.
still_waiting(expired) == ~expired

\* Mutant of poll: the caller takes whatever entry the dict holds.
poll_any_entry(dict, query_id) ==
    IF DOMAIN dict # {}
      THEN LET key == CHOOSE k \in DOMAIN dict : TRUE
               response == dict[key]
           IN IF response.error
                THEN [kind |-> "400", response |-> response,
                      dict |-> DictDel(dict, key)]
                ELSE IF response.isDuringSearch = "false"
                       THEN [kind |-> "returned", response |-> response,
                             dict |-> DictDel(dict, key)]
                       ELSE [kind |-> "sleep", response |-> NoResponse, dict |-> dict]
      ELSE [kind |-> "sleep", response |-> NoResponse, dict |-> dict]

\* Mutant of poll: a response without an isDuringSearch field counts as final.
poll_default_false(dict, query_id) ==
    IF query_id \in DOMAIN dict
      THEN LET response == dict[query_id]
           IN IF response.error
                THEN [kind |-> "400", response |-> response,
                      dict |-> DictDel(dict, query_id)]
                ELSE IF response.isDuringSearch # "true"
                       THEN [kind |-> "returned", response |-> response,
                             dict |-> DictDel(dict, query_id)]
                       ELSE [kind |-> "sleep", response |-> NoResponse, dict |-> dict]
      ELSE [kind |-> "sleep", response |-> NoResponse, dict |-> dict]

\* The body of the while loop of query_analysis: what the call does with the
\* entry of its id, and the dict it leaves.  not response.get("isDuringSearch",
\* True) is true for the JSON value false only.
poll(dict, query_id) ==
    IF query_id \in DOMAIN dict
      THEN LET response == dict[query_id]
           IN IF response.error
                THEN [kind |-> "400", response |-> response,
                      dict |-> DictDel(dict, query_id)]
                ELSE IF response.isDuringSearch = "false"
                       THEN [kind |-> "returned", response |-> response,
                             dict |-> DictDel(dict, query_id)]
                       ELSE [kind |-> "sleep", response |-> NoResponse, dict |-> dict]
      ELSE [kind |-> "sleep", response |-> NoResponse, dict |-> dict]

\* After the loop: the entry of the id, if there is one, is deleted.
timed_out(dict, query_id) ==
    IF query_id \in DOMAIN dict THEN DictDel(dict, query_id) ELSE dict

\* ------------------------------------------------------------ state machine
PreState == [board |-> board, ko_point |-> ko_point, history |-> history]

SetsUpTo(S, k) == {T \in SUBSET S : Cardinality(T) <= k}

\* __init__: the grid of the SGF's size with its setup stones, no history,
\* no ko marker.
InitWith(maxSetup) ==
    /\ board_size = BoardSize
    /\ \E AB \in SetsUpTo(Cells(BoardSize), maxSetup) :
         \E AW \in SetsUpTo(Cells(BoardSize), maxSetup - Cardinality(AB)) :
            board = place_setup_stones(BoardSize, initialize_board(BoardSize), AB, AW)
    /\ game = board
    /\ history = <<>>
    /\ ko_point = None
    /\ last = [op |-> "init", r |-> 0, c |-> 0, color |-> "b",
               captured |-> <<>>, pre |-> PreState]
    /\ probe = NoCall
    /\ main_sequence = RootOnly
    /\ Constructed

Init == InitWith(MaxSetup)

InitDeep == InitWith(MaxDeepSetup)

CanCall == probe = NoCall /\ Len(history) < MaxMoves

\* A call of play_move: it places a stone, or raises ValueError.
PlayMove ==
    /\ CanCall
    /\ \E pt \in Points(board_size), color \in Colors :
        LET r == pt[1]
            c == pt[2]
            res == play_move(board_size, board, ko_point, history, r, c, color)
        IN /\ board' = res.board
           /\ ko_point' = res.ko_point
           /\ history' = res.history
           /\ IF res.err = "none"
                THEN /\ last' = [op |-> "play", r |-> r, c |-> c, color |-> color,
                                 captured |-> res.captured, pre |-> PreState]
                     /\ probe' = probe
                ELSE /\ last' = last
                     /\ probe' = [op |-> "play", r |-> r, c |-> c, color |-> color,
                                  err |-> res.err, pre |-> PreState]
    /\ UNCHANGED <<game, board_size>>
    /\ UNCHANGED <<main_sequence, manager>>

\* A call of analyze_move: the mapping it returns is kept in probe.
AnalyzeMove ==
    /\ CanCall
    /\ \E pt \in Points(board_size), color \in Colors :
        LET r == pt[1]
            c == pt[2]
            res == analyze_move(board_size, board, ko_point, history, r, c, color)
        IN /\ board' = res.live
           /\ probe' = [op |-> "analyze", r |-> r, c |-> c, color |-> color,
                        result |-> res.result, scratch |-> res.scratch,
                        pre |-> PreState]
    /\ UNCHANGED <<game, board_size, history, ko_point, last>>
    /\ UNCHANGED <<main_sequence, manager>>

\* The caller drops what the last call returned.
Return ==
    /\ probe # NoCall
    /\ probe' = NoCall
    /\ UNCHANGED <<game, board_size, board, history, ko_point, last>>
    /\ UNCHANGED <<main_sequence, manager>>

Next == PlayMove \/ AnalyzeMove \/ Return

Spec == Init /\ [][Next]_vars

\* Placements only, from the larger setups: the positions with two captures
\* in a row or several groups captured at once.
NextDeep == PlayMove \/ Return

SpecDeep == InitDeep /\ [][NextDeep]_vars

\* The analyzer just constructed: no move made, nothing returned yet.
Fresh ==
    /\ game = board
    /\ history = <<>>
    /\ ko_point = None
    /\ last = [op |-> "init", r |-> 0, c |-> 0, color |-> "b",
               captured |-> <<>>, pre |-> PreState]
    /\ probe = NoCall
    /\ main_sequence = RootOnly
    /\ Constructed

\* A call of _find_group on a cell of the grid with a fresh visited set.
FindGroup ==
    /\ CanCall
    /\ \E pt \in Cells(board_size), color \in Colors :
        LET g == find_group(board_size, board, pt[1], pt[2], color, {})
        IN probe' = [op |-> "find", r |-> pt[1], c |-> pt[2], color |-> color,
                     found |-> g.found, group |-> g.group,
                     liberties |-> g.liberties, pre |-> PreState]
    /\ UNCHANGED <<game, board_size, board, history, ko_point, last>>
    /\ UNCHANGED <<main_sequence, manager>>

\* A call of get_groups_and_liberties.
GetGroupsAndLiberties ==
    /\ CanCall
    /\ probe' = [op |-> "census",
                 groups |-> get_groups_and_liberties(board_size, board),
                 pre |-> PreState]
    /\ UNCHANGED <<game, board_size, board, history, ko_point, last>>
    /\ UNCHANGED <<main_sequence, manager>>

\* Every grid of BoardSize: the AB and AW lists of the root node are any two
\* disjoint sets of cells.
InitCensus ==
    /\ board_size = BoardSize
    /\ \E AB \in SUBSET Cells(BoardSize) :
         \E AW \in SUBSET (Cells(BoardSize) \ AB) :
            board = place_setup_stones(BoardSize, initialize_board(BoardSize), AB, AW)
    /\ Fresh

NextCensus == FindGroup \/ GetGroupsAndLiberties \/ Return

SpecCensus == InitCensus /\ [][NextCensus]_vars

\* The AW entries that end next to the corner (0, 0) once their row is flipped.
CornerSetup(n) == {<<n - 1, 1>>, <<n - 2, 0>>}

\* A small or a wide grid, bare or with white setup stones next to the corner.
InitWide ==
    /\ board_size \in {MinSize, WideSize}
    /\ \E AW \in SUBSET CornerSetup(board_size) :
          board = place_setup_stones(board_size, initialize_board(board_size), {}, AW)
    /\ Fresh

SpecWide == InitWide /\ [][Next]_vars

\* The cells on the row and on the column of the centre of the grid.
ShapeCells(n) == {p \in Cells(n) : p[1] = n \div 2 \/ p[2] = n \div 2}

\* Setup stones around the centre: any black stones on the centre's row and
\* column, and at most MaxShapeWhite white ones.
InitShape ==
    /\ board_size = ShapeSize
    /\ \E AB \in SUBSET ShapeCells(ShapeSize) :
         \E AW \in SetsUpTo(ShapeCells(ShapeSize), MaxShapeWhite) :
            board = place_setup_stones(ShapeSize, initialize_board(ShapeSize), AB, AW)
    /\ Fresh

NextShape == AnalyzeMove \/ Return

SpecShape == InitShape /\ [][NextShape]_vars

\* The AB and AW entries that end in the first SetupRows rows of the grid once
\* their row is flipped.
RowSetup(n) == {p \in Cells(n) : p[1] >= n - SetupRows}

\* Every grid of BoardSize whose setup stones lie in those rows.
InitRows ==
    /\ board_size = BoardSize
    /\ \E AB \in SUBSET RowSetup(BoardSize) :
         \E AW \in SUBSET (RowSetup(BoardSize) \ AB) :
            board = place_setup_stones(BoardSize, initialize_board(BoardSize), AB, AW)
    /\ Fresh

\* Placements from those grids: groups without a liberty from the start, and
\* what later moves do to them.
SpecRows == InitRows /\ [][NextDeep]_vars

\* analyze_move on every grid of BoardSize.
SpecAnalysis == InitCensus /\ [][NextShape]_vars

\* The texts given to parse_move_string: letters inside and outside the
\* columns of the grids, the skipped letter, digits, a blank.
TextChars == {"a", "C", "i", "j", "z", "0", "1", "2", "5", " "}

RECURSIVE TextsOfLen(_)
TextsOfLen(k) ==
    IF k = 0 THEN {<<>>}
    ELSE {Append(t, ch) : t \in TextsOfLen(k - 1), ch \in TextChars}

Texts == UNION {TextsOfLen(k) : k \in 0 .. MaxTextLen}

\* The sides of the grids whose coordinates are read and written.
CoordSizes == {MinSize, 9, 19, MaxCoordSize}

\* A call of parse_move_string with the size of the analyzer's grid.
ParseMoveString ==
    /\ CanCall
    /\ \E text \in Texts :
         probe' = [op |-> "parse", text |-> text,
                   result |-> parse_move_string(text, board_size),
                   pre |-> PreState]
    /\ UNCHANGED <<game, board_size, board, history, ko_point, last>>
    /\ UNCHANGED <<main_sequence, manager>>

\* A call of coords_to_gtp for a cell of the grid.
CoordsToGtp ==
    /\ CanCall
    /\ \E pt \in Cells(board_size) :
         probe' = [op |-> "gtp", r |-> pt[1], c |-> pt[2],
                   text |-> coords_to_gtp(pt[1], pt[2], board_size),
                   pre |-> PreState]
    /\ UNCHANGED <<game, board_size, board, history, ko_point, last>>
    /\ UNCHANGED <<main_sequence, manager>>

InitCoords ==
    /\ board_size \in CoordSizes
    /\ board = initialize_board(board_size)
    /\ Fresh

NextCoords == ParseMoveString \/ CoordsToGtp \/ Return

SpecCoords == InitCoords /\ [][NextCoords]_vars

\* The cells of the two-by-two block at the corner (0, 0) of the grid, as the
\* SGF names them (its rows count from the bottom).
BlockCells(n) == {p \in Cells(n) : p[1] >= n - 2 /\ p[2] <= 1}

\* The nodes of the main sequences: a move of either colour in the block, a
\* pass of either colour, a node without a move.
SgfNodes(n) ==
    {MoveNode(color, p) : color \in Colors, p \in BlockCells(n)}
        \cup {PassNode(color) : color \in Colors} \cup {NoMove}

RECURSIVE SeqsOfLen(_, _)
SeqsOfLen(S, k) ==
    IF k = 0 THEN {<<>>}
    ELSE {Append(t, x) : t \in SeqsOfLen(S, k - 1), x \in S}

\* The main sequences self.game can hold: at most MaxNodes nodes.
MainSequences(n) == UNION {SeqsOfLen(SgfNodes(n), k) : k \in 0 .. MaxNodes}

\* An analyzer built from an SGF of BoardSize with at most MaxSgfSetup setup
\* stones in the block and any of those main sequences.
InitSgf ==
    /\ board_size = BoardSize
    /\ \E AB \in SetsUpTo(BlockCells(BoardSize), MaxSgfSetup) :
         \E AW \in SetsUpTo(BlockCells(BoardSize) \ AB, MaxSgfSetup - Cardinality(AB)) :
            board = place_setup_stones(BoardSize, initialize_board(BoardSize), AB, AW)
    /\ game = board
    /\ history = <<>>
    /\ ko_point = None
    /\ last = [op |-> "process_sgf", steps |-> <<>>, stopped |-> FALSE,
               pre |-> PreState]
    /\ probe = NoCall
    /\ main_sequence \in MainSequences(BoardSize)
    /\ Constructed

\* process_sgf, one turn of its for loop per step: `last` keeps the state the
\* loop started from, the state each visited node left, and whether the loop
\* was left at the break.
ProcessSgf ==
    /\ last.op = "process_sgf"
    /\ ~last.stopped
    /\ Len(last.steps) < Len(main_sequence)
    /\ LET res == loop_body(board_size, PreState, main_sequence[Len(last.steps) + 1])
       IN /\ board' = res.state.board
          /\ ko_point' = res.state.ko_point
          /\ history' = res.state.history
          /\ last' = [last EXCEPT !.steps = Append(@, res.state),
                                  !.stopped = res.break]
    /\ UNCHANGED <<game, board_size, probe>>
    /\ UNCHANGED <<main_sequence, manager>>

NextSgf == ProcessSgf

SpecSgf == InitSgf /\ [][NextSgf]_vars

\* ---------------------------------------------- engine manager: the steps
\* str(uuid.uuid4()): an id no earlier call was given.
FreshId == 1 + Cardinality({t \in Threads : callers[t].query_id # NoId})

Ended(t, outcome, response) ==
    callers' = [callers EXCEPT ![t].pc = "done", ![t].outcome = outcome,
                               ![t].response = response]

Goto(t, pc) == callers' = [callers EXCEPT ![t].pc = pc]

\* A thread calls query_analysis: it raises RuntimeError when the engine is
\* not running, else it draws its query id.
Call(t) ==
    /\ callers[t].pc = "idle"
    /\ IF ~is_running
         THEN Ended(t, "RuntimeError", NoResponse)
         ELSE callers' = [callers EXCEPT ![t].pc = "acquire", ![t].query_id = FreshId]
    /\ UNCHANGED <<is_running, process, response_dict, lock, engines, readers, lifespan>>
    /\ UNCHANGED <<analyzer, main_sequence>>

\* with self.lock
Acquire(t) ==
    /\ callers[t].pc = "acquire"
    /\ acquire(lock)
    /\ lock' = t
    /\ Goto(t, "write")
    /\ UNCHANGED <<is_running, process, response_dict, engines, readers, lifespan>>
    /\ UNCHANGED <<analyzer, main_sequence>>

\* self.process.stdin.write: the request line goes to the stream of the
\* process, or BrokenPipeError is raised when the process is dead.
Write(t) ==
    /\ callers[t].pc = "write"
    /\ IF engines[process].live
         THEN /\ engines' = [engines EXCEPT ![process].pending =
                                                Append(@, callers[t].query_id)]
              /\ Goto(t, "flush")
         ELSE /\ engines' = engines
              /\ Goto(t, "stop")
    /\ UNCHANGED <<is_running, process, response_dict, lock, readers, lifespan>>
    /\ UNCHANGED <<analyzer, main_sequence>>

\* self.process.stdin.flush and the end of the with block: the engine gets
\* what the stream holds and the lock is released; or BrokenPipeError.
Flush(t) ==
    /\ callers[t].pc = "flush"
    /\ IF engines[process].live
         THEN /\ engines' = [engines EXCEPT
                                ![process].received = @ \cup Range(engines[process].pending),
                                ![process].pending = <<>>]
              /\ lock' = NoThread
              /\ Goto(t, "wait")
         ELSE /\ engines' = engines
              /\ lock' = lock
              /\ Goto(t, "stop")
    /\ UNCHANGED <<is_running, process, response_dict, readers, lifespan>>
    /\ UNCHANGED <<analyzer, main_sequence>>

\* stop_engine called after BrokenPipeError: its test, and is_running = False.
StopEngine(t) ==
    /\ callers[t].pc = "stop"
    /\ IF stop_engine_returns(is_running, process)
         THEN /\ is_running' = is_running
              /\ Goto(t, "start")
         ELSE /\ is_running' = FALSE
              /\ Goto(t, "terminate")
    /\ UNCHANGED <<process, response_dict, lock, engines, readers, lifespan>>
    /\ UNCHANGED <<analyzer, main_sequence>>

\* The rest of stop_engine: terminate, wait at most 5 s, kill; the joins wait
\* at most 2 s each.
Terminate(t) ==
    /\ callers[t].pc = "terminate"
    /\ engines' = [engines EXCEPT ![process].live = FALSE]
    /\ Goto(t, "start")
    /\ UNCHANGED <<is_running, process, response_dict, lock, readers, lifespan>>
    /\ UNCHANGED <<analyzer, main_sequence>>

\* start_engine called after stop_engine: its test.
StartEngine(t) ==
    /\ callers[t].pc = "start"
    /\ Goto(t, IF start_engine_returns(is_running) THEN "raise" ELSE "popen")
    /\ UNCHANGED <<is_running, process, response_dict, lock, engines, readers, lifespan>>
    /\ UNCHANGED <<analyzer, main_sequence>>

\* The rest of start_engine: Popen with the command that started the engine
\* before, is_running = True, and the reader thread started (the stderr
\* reader only logs and is left out).
Started ==
    /\ engines' = Append(engines, NewProcess)
    /\ process' = Len(engines) + 1
    /\ is_running' = TRUE
    /\ readers' = Append(readers, NewReader)

Popen(t) ==
    /\ callers[t].pc = "popen"
    /\ Started
    /\ Goto(t, "raise")
    /\ UNCHANGED <<response_dict, lock, lifespan>>
    /\ UNCHANGED <<analyzer, main_sequence>>

\* raise HTTPException(503) leaves the with block.
Raise503(t) ==
    /\ callers[t].pc = "raise"
    /\ lock' = NoThread
    /\ Ended(t, "503", NoResponse)
    /\ UNCHANGED <<is_running, process, response_dict, engines, readers, lifespan>>
    /\ UNCHANGED <<analyzer, main_sequence>>

\* `timeout` seconds have passed since the thread started to wait.
Expire(t) ==
    /\ callers[t].pc = "wait"
    /\ ~callers[t].expired
    /\ callers' = [callers EXCEPT ![t].expired = TRUE]
    /\ UNCHANGED <<is_running, process, response_dict, lock, engines, readers, lifespan>>
    /\ UNCHANGED <<analyzer, main_sequence>>

\* One turn of the while loop: it is left when the time is over, else the
\* entry of the id is looked at (a turn that finds nothing and sleeps changes
\* nothing and is no step).
Poll(t) ==
    /\ callers[t].pc = "wait"
    /\ IF still_waiting(callers[t].expired)
         THEN LET res == poll(response_dict, callers[t].query_id)
              IN /\ res.kind # "sleep"
                 /\ response_dict' = res.dict
                 /\ Ended(t, res.kind, res.response)
         ELSE /\ response_dict' = response_dict
              /\ Goto(t, "timed_out")
    /\ UNCHANGED <<is_running, process, lock, engines, readers, lifespan>>
    /\ UNCHANGED <<analyzer, main_sequence>>

\* After the loop: the entry is cleaned up and HTTPException(504) raised.
TimedOut(t) ==
    /\ callers[t].pc = "timed_out"
    /\ response_dict' = timed_out(response_dict, callers[t].query_id)
    /\ Ended(t, "504", NoResponse)
    /\ UNCHANGED <<is_running, process, lock, engines, readers, lifespan>>
    /\ UNCHANGED <<analyzer, main_sequence>>

\* The lifespan of the application: start_engine at startup.
LifespanStart ==
    /\ lifespan = "startup"
    /\ lifespan' = IF start_engine_returns(is_running) THEN "serving" ELSE "popen"
    /\ UNCHANGED <<is_running, process, response_dict, lock, engines, readers, callers>>
    /\ UNCHANGED <<analyzer, main_sequence>>

\* A further call of start_engine made while the engine is running.
StartEngineAgain ==
    /\ lifespan = "serving"
    /\ is_running
    /\ lifespan' = IF start_engine_returns(is_running) THEN "served" ELSE "popen_again"
    /\ UNCHANGED <<is_running, process, response_dict, lock, engines, readers, callers>>
    /\ UNCHANGED <<analyzer, main_sequence>>

LifespanPopen ==
    /\ lifespan \in {"popen", "popen_again"}
    /\ Started
    /\ lifespan' = IF lifespan = "popen" THEN "serving" ELSE "served"
    /\ UNCHANGED <<response_dict, lock, callers>>
    /\ UNCHANGED <<analyzer, main_sequence>>

\* The lifespan of the application: stop_engine at shutdown.
LifespanStop ==
    /\ lifespan \in {"serving", "served"}
    /\ IF stop_engine_returns(is_running, process)
         THEN /\ is_running' = is_running
              /\ lifespan' = "stopped"
         ELSE /\ is_running' = FALSE
              /\ lifespan' = "terminate"
    /\ UNCHANGED <<process, response_dict, lock, engines, readers, callers>>
    /\ UNCHANGED <<analyzer, main_sequence>>

LifespanTerminate ==
    /\ lifespan = "terminate"
    /\ engines' = [engines EXCEPT ![process].live = FALSE]
    /\ lifespan' = "stopped"
    /\ UNCHANGED <<is_running, process, response_dict, lock, readers, callers>>
    /\ UNCHANGED <<analyzer, main_sequence>>

\* The engine: it writes a line about a query it has read, of any shape and
\* in any order, while it has written fewer than max lines.
Responds(max) ==
    /\ \E p \in 1 .. Len(engines), shape \in ResponseShapes :
         \E id \in engines[p].received :
            /\ engines[p].live
            /\ engines[p].sent < max
            /\ engines' = [engines EXCEPT
                              ![p].stdout = Append(@, ResponseLine(id, shape)),
                              ![p].sent = @ + 1]
    /\ UNCHANGED <<is_running, process, response_dict, lock, readers, callers, lifespan>>
    /\ UNCHANGED <<analyzer, main_sequence>>

Respond == Responds(MaxResponses)

RespondFair == Responds(MaxFairResponses)

\* The engine dies by itself, at most MaxCrashes times.
Crash ==
    /\ Cardinality({p \in 1 .. Len(engines) : engines[p].crashed}) < MaxCrashes
    /\ \E p \in 1 .. Len(engines) :
          /\ engines[p].live
          /\ engines' = [engines EXCEPT ![p].live = FALSE, ![p].crashed = TRUE]
    /\ UNCHANGED <<is_running, process, response_dict, lock, readers, callers, lifespan>>
    /\ UNCHANGED <<analyzer, main_sequence>>

\* _read_stdout: the test of its while loop.
ReadLoop(k) ==
    /\ readers[k].pc = "loop"
    /\ readers' = IF is_running /\ process # NoProcess
                    THEN [readers EXCEPT ![k].pc = "readline", ![k].handle = process]
                    ELSE [readers EXCEPT ![k].pc = "done"]
    /\ UNCHANGED <<is_running, process, response_dict, lock, engines, callers, lifespan>>
    /\ UNCHANGED <<analyzer, main_sequence>>

\* _read_stdout: readline returns a line, which is stored, or the empty
\* string at the end of the stream of a dead process; else it blocks.
ReadLine(k) ==
    /\ readers[k].pc = "readline"
    /\ LET h == readers[k].handle
       IN IF engines[h].stdout # <<>>
            THEN /\ response_dict' = read_stdout_store(response_dict, Head(engines[h].stdout))
                 /\ engines' = [engines EXCEPT ![h].stdout = Tail(@)]
                 /\ readers' = [readers EXCEPT ![k].pc = "loop"]
            ELSE /\ ~engines[h].live
                 /\ response_dict' = response_dict
                 /\ engines' = engines
                 /\ readers' = [readers EXCEPT ![k].pc = "done"]
    /\ UNCHANGED <<is_running, process, lock, callers, lifespan>>
    /\ UNCHANGED <<analyzer, main_sequence>>

\* The manager just constructed, next to an analyzer of an empty grid.
InitManager ==
    /\ board_size = BoardSize
    /\ board = initialize_board(BoardSize)
    /\ Fresh

QueryAnalysis(t) ==
    \/ Call(t) \/ Acquire(t) \/ Write(t) \/ Flush(t)
    \/ StopEngine(t) \/ Terminate(t) \/ StartEngine(t) \/ Popen(t) \/ Raise503(t)
    \/ Poll(t) \/ TimedOut(t)

Lifespan ==
    LifespanStart \/ StartEngineAgain \/ LifespanPopen \/ LifespanStop \/ LifespanTerminate

ReadStdout == \E k \in 1 .. Len(readers) : ReadLoop(k) \/ ReadLine(k)

NextManager ==
    \/ \E t \in Threads : QueryAnalysis(t)
    \/ \E t \in Threads : Expire(t)
    \/ Lifespan
    \/ ReadStdout
    \/ Respond
    \/ Crash

SpecManager == InitManager /\ [][NextManager]_vars

\* A thread inside query_analysis is scheduled again and again, and time
\* passes for a thread that waits.
Running(t) ==
    \/ Acquire(t) \/ Write(t) \/ Flush(t)
    \/ StopEngine(t) \/ Terminate(t) \/ StartEngine(t) \/ Popen(t) \/ Raise503(t)
    \/ Poll(t) \/ TimedOut(t)

\* The same steps with an engine that writes at most MaxFairResponses lines.
NextManagerFair ==
    \/ \E t \in Threads : QueryAnalysis(t)
    \/ \E t \in Threads : Expire(t)
    \/ Lifespan
    \/ ReadStdout
    \/ RespondFair
    \/ Crash

SpecManagerFair ==
    /\ InitManager
    /\ [][NextManagerFair]_vars
    /\ \A t \in Threads : WF_vars(Running(t)) /\ WF_vars(Expire(t))

\* ------------------------------------------------------------------ claims
\* The live state, to compare with the pre-state a call started from.
Now == [board |-> board, ko_point |-> ko_point, history |-> history]

\* The state is the one a successful play_move has just left.
JustPlayed == last.op = "play" /\ probe = NoCall

\* A play_move has just raised; an analyze_move has just returned.
PlayFailed == probe.op = "play"
Analyzed   == probe.op = "analyze"

\* Groups and liberties as the rules define them, not as the code finds them.
Adjacent(p, q) ==
    \/ p[1] = q[1] /\ (p[2] - q[2] = 1 \/ q[2] - p[2] = 1)
    \/ p[2] = q[2] /\ (p[1] - q[1] = 1 \/ q[1] - p[1] = 1)

RECURSIVE Connected(_, _)
Connected(b, S) ==
    LET T == S \cup {q \in DOMAIN b : \E p \in S : Adjacent(p, q) /\ b[q] = b[p]}
    IN IF T = S THEN S ELSE Connected(b, T)

GroupAt(b, p) == Connected(b, {p})

LibertiesOf(b, G) == {q \in DOMAIN b : b[q] = "." /\ \E p \in G : Adjacent(p, q)}

\* The cells that held a stone before the last placement and are empty now.
Removed == {p \in DOMAIN board : last.pre.board[p] # "." /\ board[p] = "."}

\* The grid of the last placement with the stone put down and nothing removed.
Placed == [last.pre.board EXCEPT ![<<last.r, last.c>>] = last.color]

\* The opposing groups next to the placed stone that have no liberty on Placed.
Dead ==
    UNION {GroupAt(Placed, q) :
             q \in {x \in DOMAIN board :
                      /\ Adjacent(x, <<last.r, last.c>>)
                      /\ Placed[x] = opponent(last.color)
                      /\ LibertiesOf(Placed, GroupAt(Placed, x)) = {}}}

\* C1: a play_move that raises (outside the board, occupied cell, ko marker)
\* leaves the grid, the history and the ko marker as they were before the call.
C1_FailedPlayChangesNothing ==
    PlayFailed => Now = probe.pre

C1_Witness ==
    /\ PlayFailed
    /\ probe.err = "ko"
    /\ probe.pre.ko_point = <<probe.r, probe.c>>

\* C2: play_move raises if and only if the target is outside the board, or
\* its cell is not empty, or it is the ko marker; every other call places the
\* stone, also when the stone's own group is left without a liberty.
IllegalTarget(n, st, r, c) ==
    \/ ~InBounds(n, r, c)
    \/ st.board[<<r, c>>] # "."
    \/ <<r, c>> = st.ko_point

C2_FailsIffIllegalTarget ==
    /\ PlayFailed => IllegalTarget(board_size, probe.pre, probe.r, probe.c)
    /\ JustPlayed => ~IllegalTarget(board_size, last.pre, last.r, last.c)

C2_Witness ==
    /\ JustPlayed
    /\ last.captured = <<>>
    /\ board[<<last.r, last.c>>] = last.color
    /\ LibertiesOf(board, GroupAt(board, <<last.r, last.c>>)) = {}

\* C3: after a successful play_move the cells that went from occupied to empty
\* are exactly the opposing groups next to the placed stone that have no liberty
\* on the grid with the stone placed; no stone of the mover is removed, no
\* group with a liberty is removed, and every cell other than the target and
\* the captured cells is unchanged.
C3_CapturesExactlyDeadNeighbours ==
    JustPlayed =>
        /\ Removed = Dead
        /\ \A p \in Removed :
              /\ last.pre.board[p] = opponent(last.color)
              /\ LibertiesOf(Placed, GroupAt(Placed, p)) = {}
        /\ \A p \in DOMAIN board :
              (p \notin Dead /\ p # <<last.r, last.c>>) => board[p] = last.pre.board[p]

C3_Witness ==
    /\ JustPlayed
    /\ Removed # {}
    /\ \E q \in DOMAIN board :
          /\ Adjacent(q, <<last.r, last.c>>)
          /\ board[q] = opponent(last.color)

\* C4: after every successful play_move the ko marker is the captured cell if
\* and only if the move captured exactly one stone; with no stone or with two
\* or more stones captured it is None.
C4_KoMarkerIffOneCaptured ==
    JustPlayed =>
        IF Cardinality(Removed) = 1
          THEN Removed = {ko_point}
          ELSE ko_point = None

C4_Witness ==
    /\ JustPlayed
    /\ Cardinality(Removed) >= 2
    /\ ko_point = None

\* C5: when a successful play_move captured exactly one stone at p, a play_move
\* at p made next raises the ko error whatever the colour, and changes nothing.
C5_ReplayAtCapturedCellIsKo ==
    /\ (JustPlayed /\ Cardinality(Removed) = 1) =>
          \A p \in Removed, color \in Colors :
              LET res == play_move(board_size, board, ko_point, history,
                                   p[1], p[2], color)
              IN /\ res.err = "ko"
                 /\ res.board = board
                 /\ res.ko_point = ko_point
                 /\ res.history = history
    /\ (PlayFailed /\ last.op = "play" /\ Cardinality(Removed) = 1
          /\ Removed = {<<probe.r, probe.c>>}) =>
          probe.err = "ko" /\ Now = probe.pre

C5_Witness ==
    /\ PlayFailed
    /\ last.op = "play"
    /\ Removed = {<<probe.r, probe.c>>}
    /\ probe.err = "ko"

\* C6 as stated: with a ko marker set, a successful play_move at another cell
\* leaves the ko marker None.
C6_Original ==
    (JustPlayed /\ last.pre.ko_point # None /\ <<last.r, last.c>> # last.pre.ko_point)
        => ko_point = None

\* C6 as amended: with a ko marker set, a successful play_move at another cell
\* removes that marker: afterwards the ko marker is None, unless the move itself
\* captured exactly one stone, and then it is that stone's cell, which is not
\* the old marker.
C6_PlayElsewhereDropsOldMarker ==
    (JustPlayed /\ last.pre.ko_point # None /\ <<last.r, last.c>> # last.pre.ko_point)
        => /\ ko_point # last.pre.ko_point
           /\ \/ ko_point = None
              \/ Removed = {ko_point}

C6_Witness ==
    /\ JustPlayed
    /\ last.pre.ko_point # None
    /\ <<last.r, last.c>> # last.pre.ko_point
    /\ ko_point = None

\* C7: in every state reached by play_move and analyze_move calls the ko marker
\* is None or a cell of the grid that is empty.
C7_KoMarkerIsEmptyCell ==
    ko_point # None =>
        /\ ko_point \in Cells(board_size)
        /\ board[ko_point] = "."

C7_Witness ==
    /\ Analyzed
    /\ ko_point # None
    /\ board[ko_point] = "."

\* C8: whenever the ko marker is set after a successful play_move, the stone
\* just placed is a group of one stone with exactly one liberty, the marker.
C8_KoMarkerOnlyInKoShape ==
    (JustPlayed /\ ko_point # None) =>
        /\ GroupAt(board, <<last.r, last.c>>) = {<<last.r, last.c>>}
        /\ LibertiesOf(board, {<<last.r, last.c>>}) = {ko_point}

\* C9: analyze_move leaves the live grid, the history and the ko marker as they
\* were, whatever the target (illegal, suicide, capturing), and the same call
\* made again in the state it leaves returns the same result.
C9_AnalyzeChangesNothing ==
    Analyzed =>
        /\ Now = probe.pre
        /\ analyze_move(board_size, board, ko_point, history,
                        probe.r, probe.c, probe.color).result = probe.result

C9_Witness ==
    /\ Analyzed
    /\ "capture" \in DOMAIN probe.result
    /\ probe.result.capture
    /\ board[<<probe.r, probe.c>>] = "."

\* C10: analyze_move returns an error result (the reason alone, no flag, no
\* exception) exactly when play_move with the same arguments raises, and for
\* the same kind of reason; otherwise it returns the analysis mapping.
C10_AnalyzeErrorIffPlayFails ==
    Analyzed =>
        LET res == play_move(board_size, probe.pre.board, probe.pre.ko_point,
                             probe.pre.history, probe.r, probe.c, probe.color)
        IN IF res.err = "none"
             THEN /\ "error" \notin DOMAIN probe.result
                  /\ {"capture", "suicide"} \subseteq DOMAIN probe.result
             ELSE probe.result = [error |-> res.err]

C10_Witness ==
    /\ Analyzed
    /\ probe.result = [error |-> "ko"]

\* A get_groups_and_liberties or a _find_group call has just returned.
Counted == probe.op = "census"
Found   == probe.op = "find"

\* The (colour name, group) pairs of a census, by list and position.
Entries(groups) ==
    {<<name, i>> : name \in {"black"}, i \in 1 .. Len(groups.black)}
      \cup {<<name, i>> : name \in {"white"}, i \in 1 .. Len(groups.white)}

EntryGroup(groups, e) == groups[e[1]][e[2]].group

\* C11: the groups get_groups_and_liberties returns partition the occupied
\* cells of the grid: every occupied cell is in exactly one returned group, no
\* empty cell is in any, every group holds stones of the one colour it is listed
\* under, and no two returned groups of the same colour touch orthogonally.
C11_CensusPartitionsOccupiedCells ==
    Counted =>
        LET g == probe.groups
            E == Entries(g)
        IN /\ \A p \in DOMAIN board :
                 Cardinality({e \in E : p \in EntryGroup(g, e)})
                    = IF board[p] = "." THEN 0 ELSE 1
           /\ \A e \in E :
                 /\ EntryGroup(g, e) # {}
                 /\ EntryGroup(g, e) \subseteq DOMAIN board
                 /\ \A p \in EntryGroup(g, e) :
                       board[p] = (IF e[1] = "black" THEN "b" ELSE "w")
           /\ \A e1, e2 \in E :
                 (e1 # e2 /\ e1[1] = e2[1]) =>
                    ~\E p \in EntryGroup(g, e1), q \in EntryGroup(g, e2) : Adjacent(p, q)

C11_Witness ==
    /\ Counted
    /\ Len(probe.groups.black) >= 2
    /\ Len(probe.groups.white) >= 1
    /\ \E i \in 1 .. Len(probe.groups.black) :
          Cardinality(probe.groups.black[i].group) >= 3

\* C12: _find_group on a cell that holds a stone of the colour asked for, with
\* a fresh visited set, returns the maximal orthogonally connected set of
\* stones of that colour containing the cell, and exactly the empty cells next
\* to a member of it, each once (a lone corner stone has two); on an empty
\* cell it returns no group and no liberties, the pair (None, None).
C12_FindGroupIsMaximalWithItsLiberties ==
    Found =>
        LET p == <<probe.r, probe.c>>
        IN IF board[p] = probe.color
             THEN /\ probe.found
                  /\ probe.group = GroupAt(board, p)
                  /\ probe.liberties = LibertiesOf(board, GroupAt(board, p))
                  /\ ((GroupAt(board, p) = {p} /\ p = <<0, 0>>
                        /\ board[<<0, 1>>] = "." /\ board[<<1, 0>>] = ".")
                          => Cardinality(probe.liberties) = 2)
             ELSE /\ ~probe.found
                  /\ probe.group = {}
                  /\ probe.liberties = {}

C12_Witness ==
    /\ Found
    /\ probe.found
    /\ Cardinality(probe.group) >= 3
    /\ \E l \in probe.liberties :
          Cardinality({m \in probe.group : Adjacent(m, l)}) >= 2
    /\ \E q \in DOMAIN board :
          /\ board[q] = probe.color
          /\ q \notin probe.group

\* C13: immediately after every successful play_move(r, c, color) the cell
\* (r, c) holds a stone of that colour, also when the stone's group is left
\* without a liberty and nothing was captured: a suicide stays on the grid.
C13_PlacedStoneStays ==
    JustPlayed => board[<<last.r, last.c>>] = last.color

C13_Witness ==
    /\ JustPlayed
    /\ Removed = {}
    /\ board[<<last.r, last.c>>] = last.color
    /\ Cardinality(GroupAt(board, <<last.r, last.c>>)) >= 2
    /\ LibertiesOf(board, GroupAt(board, <<last.r, last.c>>)) = {}

\* The step the history may take: one record more, for the placement just made.
HistoryStep ==
    IF last' # last
      THEN history' = Append(history, << <<last'.r, last'.c>>, last'.color >>)
      ELSE history' = history

\* C14: the history starts empty (setup stones are not in it) and is append
\* only: a successful play_move appends the one record ((r, c), color) and
\* leaves the earlier records as they were; a play_move that raises and an
\* analyze_move leave the history unchanged; so its length is the number of
\* successful play_move calls.
C14_HistoryAppendOnly ==
    /\ history = <<>>
    /\ [][HistoryStep]_vars

C14_Witness ==
    /\ Analyzed
    /\ Len(history) = 1
    /\ \E p \in DOMAIN board : board[p] # "." /\ p # history[1][1]

\* analyze_move has returned an analysis mapping, not an error.
AnalyzedLegal == Analyzed /\ "error" \notin DOMAIN probe.result

\* The cells that hold a stone before the analysed move and none on grid b.
Taken(b) == {p \in DOMAIN b : probe.pre.board[p] # "." /\ b[p] = "."}

\* C15: for a legal target the capture flag of analyze_move(r, c, color) is
\* true exactly when play_move(r, c, color) in the same state removes at least
\* one stone, and the scratch grid analyze_move ends with is the grid play_move
\* leaves: the same placed stone, the same captured cells.
C15_AnalyzeCaptureMatchesPlay ==
    AnalyzedLegal =>
        LET pm == play_move(board_size, probe.pre.board, probe.pre.ko_point,
                            probe.pre.history, probe.r, probe.c, probe.color)
        IN /\ pm.err = "none"
           /\ probe.result.capture = (Taken(pm.board) # {})
           /\ probe.scratch = pm.board

C15_Witness ==
    /\ AnalyzedLegal
    /\ probe.result.capture
    /\ probe.scratch[<<probe.r, probe.c>>] = probe.color
    /\ \E p \in Taken(probe.scratch) : probe.pre.board[p] = opponent(probe.color)
    /\ probe.pre.history # <<>>

\* C16: analyze_move reports suicide = true exactly when, on the scratch grid
\* after the simulated captures, the group of the placed stone has no liberty
\* and nothing was captured; the result is then cut short: capture is false
\* and every other flag the result holds is false.
C16_SuicideIffDeadAndNoCapture ==
    AnalyzedLegal =>
        LET p == <<probe.r, probe.c>>
            dead == LibertiesOf(probe.scratch, GroupAt(probe.scratch, p)) = {}
        IN /\ probe.result.suicide = (dead /\ Taken(probe.scratch) = {})
           /\ probe.result.suicide =>
                 \A k \in DOMAIN probe.result \ {"suicide"} : probe.result[k] = FALSE

C16_Witness ==
    /\ AnalyzedLegal
    /\ probe.result.suicide
    /\ ~probe.result.capture
    /\ \E q \in DOMAIN board :
          Adjacent(q, <<probe.r, probe.c>>) /\ board[q] = opponent(probe.color)

\* The squared distance from the analysed target to the last move of history h.
SquaredDistance(h) ==
    LET last_move == h[Len(h)][1]
    IN (probe.r - last_move[1]) * (probe.r - last_move[1])
         + (probe.c - last_move[2]) * (probe.c - last_move[2])

\* C17 as stated: analyze_move reports tenuki = true exactly when the history
\* is not empty and the squared distance between the target and the last move
\* of the history is greater than 25, and false when there is no history.
C17_Original ==
    AnalyzedLegal =>
        probe.result.tenuki = (history # <<>> /\ SquaredDistance(history) > 25)

\* C17 as amended: analyze_move reports tenuki = true exactly when the move is
\* not reported as suicide, the history is not empty and the squared distance
\* between the target and the last move of the history is greater than 50; it
\* reports tenuki = false when there is no history.
C17_TenukiBeyondFifty ==
    AnalyzedLegal =>
        probe.result.tenuki =
            (/\ ~probe.result.suicide
             /\ history # <<>>
             /\ SquaredDistance(history) > 50)

C17_Witness ==
    /\ AnalyzedLegal
    /\ probe.result.tenuki
    /\ history # <<>>
    /\ SquaredDistance(history) > 50

\* C18: analyze_move reports takes_ko = true when the target is the current ko
\* marker, and takes_ko = false otherwise.
C18_TakesKoAtMarker ==
    Analyzed =>
        IF <<probe.r, probe.c>> = probe.pre.ko_point
          THEN "takes_ko" \in DOMAIN probe.result /\ probe.result.takes_ko
          ELSE "takes_ko" \in DOMAIN probe.result => ~probe.result.takes_ko

\* C19: whenever analyze_move reports one_point_jump = true, every cell of the
\* grid orthogonally next to the target is empty on the grid before the move.
C19_OnePointJumpNeedsEmptyNeighbours ==
    (/\ AnalyzedLegal
     /\ "one_point_jump" \in DOMAIN probe.result
     /\ probe.result.one_point_jump)
        => \A q \in DOMAIN board :
              Adjacent(q, <<probe.r, probe.c>>) => probe.pre.board[q] = "."

\* The flags of a full analysis mapping.
AllFlags ==
    {"capture", "connects", "cuts", "atari", "self_atari", "suicide",
     "starts_ko", "takes_ko", "tenuki", "peep", "throw_in",
     "completes_empty_triangle", "completes_tiger_mouth",
     "completes_bamboo_joint", "one_point_jump", "knights_move", "diagonal"}

\* C20: on an empty grid of side two or more, with an empty history and no ko
\* marker, analyze_move for any cell of the grid and either colour returns an
\* analysis mapping in which every flag (capture, self_atari, suicide, atari,
\* connects, cuts, starts_ko, takes_ko, tenuki, peep, throw_in and the six
\* shape flags) is false.
C20_EmptyBoardAllFlagsFalse ==
    (/\ Analyzed
     /\ board_size >= 2
     /\ \A p \in DOMAIN board : probe.pre.board[p] = "."
     /\ probe.pre.history = <<>>
     /\ probe.pre.ko_point = None
     /\ InBounds(board_size, probe.r, probe.c))
        => /\ DOMAIN probe.result = AllFlags
           /\ \A k \in AllFlags : probe.result[k] = FALSE

C20_Witness ==
    /\ Analyzed
    /\ board_size = MinSize
    /\ \A p \in DOMAIN board : board[p] = "."
    /\ history = <<>>
    /\ DOMAIN probe.result = AllFlags

\* parse_move_string or coords_to_gtp has just returned.
Parsed    == probe.op = "parse"
Formatted == probe.op = "gtp"

\* The columns a grid of side n has a letter for: the first n letters of the
\* alphabet without I.
ColumnLetters(n) ==
    {LowerCase[k] : k \in {j \in 1 .. 26 : j # 9 /\ (IF j < 9 THEN j ELSE j - 1) <= n}}

\* The value of a text of digits read as a decimal number.
DecimalValue(text) ==
    LET digit(ch) == CHOOSE d \in 0 .. 9 : DigitChars[d + 1] = ch
    IN IF Len(text) = 1 THEN digit(text[1])
       ELSE 10 * digit(text[1]) + digit(text[2])

\* A text, once lowered and stripped, that names a cell of a grid of side n.
WellFormed(t, n) ==
    /\ Len(t) \in 2 .. 3
    /\ t[1] \in ColumnLetters(n)
    /\ \A i \in 2 .. Len(t) : t[i] \in {"0", "1", "2", "3", "4", "5", "6", "7", "8", "9"}
    /\ DecimalValue(Tail(t)) \in 1 .. n

\* C21: parse_move_string(s, N) either raises (length not 2..3, column letter
\* not among the first N letters of the alphabet without I, row not a number,
\* row number outside 1..N) or returns (row, col) with 0 <= row < N and
\* 0 <= col < N; and it inverts the coordinate text: for N <= 25 and every cell
\* (row, col), parse_move_string(coords_to_gtp(row, col, N), N) = (row, col),
\* the row being written as N - row, the number draw_board prints.
C21_ParseInvertsCoordinateText ==
    /\ Parsed =>
          LET t == strip(lower(probe.text))
              res == probe.result
          IN IF WellFormed(t, board_size)
               THEN /\ res.err = "none"
                    /\ InBounds(board_size, res.row, res.col)
                    /\ res.row = board_size - DecimalValue(Tail(t))
               ELSE res.err # "none"
    /\ (Formatted /\ board_size <= 25) =>
          /\ parse_move_string(probe.text, board_size)
                = [err |-> "none", row |-> probe.r, col |-> probe.c]
          /\ Tail(probe.text) = str(board_size - probe.r)
          /\ parse_move_string(<<draw_board_col_letter(probe.c)>>
                                  \o draw_board_row_label(board_size, probe.r),
                               board_size)
                = [err |-> "none", row |-> probe.r, col |-> probe.c]

C21_Witness ==
    /\ Formatted
    /\ probe.c >= 8
    /\ board_size - probe.r >= 10
    /\ Len(probe.text) = 3
    /\ parse_move_string(probe.text, board_size).err = "none"

\* The opposing groups next to the stone of the last placement, on grid b.
OpposingNeighbourGroups(b) ==
    {GroupAt(b, x) : x \in {y \in DOMAIN b : /\ Adjacent(y, <<last.r, last.c>>)
                                              /\ b[y] = opponent(last.color)}}

\* The groups among them without a liberty on the grid with the stone placed.
DeadGroups == {G \in OpposingNeighbourGroups(Placed) : LibertiesOf(Placed, G) = {}}

\* Grid b with the stones of the cells S taken off.
Without(b, S) == [p \in DOMAIN b |-> IF p \in S THEN "." ELSE b[p]]

\* C22: capture resolution does not depend on the order of the neighbours: the
\* grid and the captured stones _handle_captures produces, removing each
\* opposing group without a liberty as it meets it, are those of finding all
\* such groups on the grid with the stone placed and removing them together;
\* removing one of them never changes whether another group next to the stone
\* is captured, and no stone is in the captured list twice.
C22_CapturesAreSimultaneous ==
    JustPlayed =>
        /\ board = Without(Placed, UNION DeadGroups)
        /\ Range(last.captured) = UNION DeadGroups
        /\ Len(last.captured) = Cardinality(UNION DeadGroups)
        /\ \A D \in DeadGroups :
              \A G \in OpposingNeighbourGroups(Placed) \ {D} :
                 (LibertiesOf(Without(Placed, D), G) = {})
                    = (LibertiesOf(Placed, G) = {})

C22_Witness ==
    /\ JustPlayed
    /\ Cardinality(DeadGroups) >= 2
    /\ Range(last.captured) = UNION DeadGroups

\* C23: analyze_move reports starts_ko = true exactly when the simulated
\* placement captures exactly one stone, the placed stone is a group of one
\* stone with exactly one liberty, and that liberty is the captured cell; and
\* whenever starts_ko is true, play_move of the same move sets the ko marker to
\* that captured cell.
C23_StartsKoIffKoShape ==
    AnalyzedLegal =>
        LET p == <<probe.r, probe.c>>
            taken == Taken(probe.scratch)
            pm == play_move(board_size, probe.pre.board, probe.pre.ko_point,
                            probe.pre.history, probe.r, probe.c, probe.color)
        IN /\ probe.result.starts_ko =
                 (/\ Cardinality(taken) = 1
                  /\ GroupAt(probe.scratch, p) = {p}
                  /\ Cardinality(LibertiesOf(probe.scratch, {p})) = 1
                  /\ LibertiesOf(probe.scratch, {p}) = taken)
           /\ probe.result.starts_ko => taken = {pm.ko_point}

C23_Witness ==
    /\ AnalyzedLegal
    /\ probe.result.starts_ko
    /\ Cardinality(Taken(probe.scratch)) = 1

\* analyze_move has returned a mapping that does not report a suicide.
AnalyzedAlive == AnalyzedLegal /\ ~probe.result.suicide

\* C24: for a legal target that is not a suicide, analyze_move reports
\* atari = true exactly when some opposing group next to the target has exactly
\* one liberty on the scratch grid (stone placed, captures removed), and
\* self_atari = true exactly when the group of the placed stone has exactly one
\* liberty on that grid and nothing was captured.
C24_AtariAndSelfAtari ==
    AnalyzedAlive =>
        LET p == <<probe.r, probe.c>>
            g == probe.scratch
        IN /\ probe.result.atari =
                 (\E q \in DOMAIN g :
                     /\ Adjacent(q, p)
                     /\ g[q] = opponent(probe.color)
                     /\ Cardinality(LibertiesOf(g, GroupAt(g, q))) = 1)
           /\ probe.result.self_atari =
                 (/\ Cardinality(LibertiesOf(g, GroupAt(g, p))) = 1
                  /\ Taken(g) = {})

C24_Witness ==
    /\ AnalyzedAlive
    /\ probe.result.atari
    /\ probe.result.self_atari
    /\ Cardinality(GroupAt(probe.scratch, <<probe.r, probe.c>>)) >= 2

\* The groups of colour col, on the grid before the analysed move, that hold a
\* cell next to the target.
GroupsBeside(col) ==
    {GroupAt(probe.pre.board, q) :
        q \in {x \in DOMAIN board : /\ Adjacent(x, <<probe.r, probe.c>>)
                                    /\ probe.pre.board[x] = col}}

\* C25: for a legal target that is not a suicide, connects is true exactly when
\* the neighbours of the target on the live grid before the move belong to more
\* than one group of the mover's colour, and cuts exactly when they belong to
\* more than one group of the other colour; two neighbours of one group count
\* once, and the groups are those before the move even when it captures one.
C25_ConnectsAndCutsCountGroups ==
    AnalyzedAlive =>
        /\ probe.result.connects = (Cardinality(GroupsBeside(probe.color)) > 1)
        /\ probe.result.cuts = (Cardinality(GroupsBeside(opponent(probe.color))) > 1)

C25_Witness ==
    /\ AnalyzedAlive
    /\ probe.result.cuts
    /\ probe.result.capture
    /\ ~probe.result.connects
    /\ \E G \in GroupsBeside(probe.color) :
          Cardinality({q \in G : Adjacent(q, <<probe.r, probe.c>>)}) >= 2

\* Every cell at one of the offsets from (r, c) is a cell of the grid before
\* the analysed move and holds a stone of colour col there.
AllHold(r, c, col, offsets) ==
    \A o \in offsets :
        /\ <<r + o[1], c + o[2]>> \in DOMAIN probe.pre.board
        /\ probe.pre.board[<<r + o[1], c + o[2]>>] = col

\* Some one of the offset sets holds in full.
SomeHolds(col, offsetSets) ==
    \E offsets \in offsetSets : AllHold(probe.r, probe.c, col, offsets)

\* C26: _check_pattern is true exactly when every offset cell is on the grid
\* and holds a stone of the colour on the grid before the move; an offset that
\* falls outside the grid, a negative row or column included, makes it false
\* and no cell of the far edge is read in its place: peep, one_point_jump,
\* knights_move, diagonal and the shape completions never match across an edge.
C26_PatternsStayOnTheBoard ==
    AnalyzedAlive =>
        LET me == probe.color
            opp == opponent(probe.color)
            res == probe.result
        IN /\ res.peep =
                 (\/ SomeHolds(opp, {{<<-1, 0>>, <<1, 0>>}})
                  \/ SomeHolds(opp, {{<<0, -1>>, <<0, 1>>}}))
           /\ res.one_point_jump =
                 (/\ SomeHolds(me, {{<<-2, 0>>, <<2, 0>>, <<0, -2>>, <<0, 2>>}})
                  /\ ~SomeHolds(me, {{<<-1, 0>>, <<1, 0>>, <<0, -1>>, <<0, 1>>}}))
           /\ res.knights_move =
                 SomeHolds(me, {{<<1, 2>>, <<1, -2>>, <<-1, 2>>, <<-1, -2>>,
                                 <<2, 1>>, <<2, -1>>, <<-2, 1>>, <<-2, -1>>}})
           /\ res.diagonal =
                 SomeHolds(me, {{<<1, 1>>, <<1, -1>>, <<-1, 1>>, <<-1, -1>>}})
           /\ res.completes_empty_triangle =
                 SomeHolds(me, {{<<0, -1>>, <<-1, 0>>}, {<<-1, 0>>, <<0, 1>>},
                                {<<0, 1>>, <<1, 0>>}, {<<1, 0>>, <<0, -1>>}})
           /\ res.completes_tiger_mouth =
                 SomeHolds(me, {{<<-1, -1>>, <<1, -1>>}, {<<-1, 1>>, <<1, 1>>},
                                {<<1, -1>>, <<1, 1>>}, {<<-1, -1>>, <<-1, 1>>}})
           /\ res.completes_bamboo_joint =
                 SomeHolds(me, {{<<0, -2>>, <<1, 0>>, <<1, -2>>},
                                {<<0, -2>>, <<-1, 0>>, <<-1, -2>>},
                                {<<0, 2>>, <<1, 0>>, <<1, 2>>},
                                {<<0, 2>>, <<-1, 0>>, <<-1, 2>>},
                                {<<-2, 0>>, <<0, 1>>, <<-2, 1>>},
                                {<<-2, 0>>, <<0, -1>>, <<-2, -1>>},
                                {<<2, 0>>, <<0, 1>>, <<2, 1>>},
                                {<<2, 0>>, <<0, -1>>, <<2, -1>>}})

C26_Witness ==
    /\ AnalyzedAlive
    /\ <<probe.r, probe.c>> = <<0, 0>>
    /\ probe.pre.board[<<1, 1>>] = probe.color
    /\ probe.pre.board[<<1, board_size - 1>>] = probe.color
    /\ ~probe.result.completes_tiger_mouth

\* Every cell of the grid next to the analysed target held an opposing stone
\* before the move.
Surrounded ==
    \A q \in DOMAIN board :
        Adjacent(q, <<probe.r, probe.c>>) => probe.pre.board[q] = opponent(probe.color)

\* C27: throw_in is false in every analysis mapping analyze_move returns: a
\* target whose neighbours on the grid are all opposing stones gives a capture
\* (so self_atari is false) or a placement without a liberty (a suicide, cut
\* short), so self_atari and 'every neighbour is an opposing stone' never hold
\* together.
C27_ThrowInNeverReported ==
    AnalyzedLegal =>
        /\ "throw_in" \in DOMAIN probe.result => ~probe.result.throw_in
        /\ Surrounded =>
              /\ probe.result.capture \/ probe.result.suicide
              /\ ~probe.result.self_atari

C27_Witness ==
    /\ AnalyzedAlive
    /\ Surrounded
    /\ probe.result.capture
    /\ Cardinality(LibertiesOf(probe.scratch, {<<probe.r, probe.c>>})) = 1
    /\ ~probe.result.throw_in

\* C28: the ko restriction lasts one move: when the ko marker is p before a
\* successful play_move at another cell, then after that move p is not the ko
\* marker and p is still empty, so that play_move at p is legal for either
\* colour.
C28_KoLastsOneMove ==
    (JustPlayed /\ last.pre.ko_point # None) =>
        LET p == last.pre.ko_point
        IN /\ <<last.r, last.c>> # p
           /\ ko_point # p
           /\ board[p] = "."
           /\ \A color \in Colors :
                 play_move(board_size, board, ko_point, history,
                           p[1], p[2], color).err = "none"

C28_Witness ==
    /\ JustPlayed
    /\ last.pre.ko_point # None
    /\ ko_point # None
    /\ board[last.pre.ko_point] = "."

\* The liberties, on the scratch grid, of the group of the analysed stone.
OwnLiberties ==
    LibertiesOf(probe.scratch, GroupAt(probe.scratch, <<probe.r, probe.c>>))

\* C29: whenever a placement captures at least one stone, the group of the
\* placed stone has a liberty afterwards; hence in every analyze_move result
\* capture and suicide are never both true, capture and self_atari are never
\* both true, and suicide is the same as 'the own group has no liberty after
\* the captures are resolved'.
C29_CaptureGivesALiberty ==
    AnalyzedLegal =>
        /\ probe.result.capture = (Taken(probe.scratch) # {})
        /\ probe.result.capture => OwnLiberties # {}
        /\ ~(probe.result.capture /\ probe.result.suicide)
        /\ ~(probe.result.capture /\ probe.result.self_atari)
        /\ probe.result.suicide = (OwnLiberties = {})

C29_Witness ==
    /\ AnalyzedLegal
    /\ probe.result.capture
    /\ Cardinality(OwnLiberties) = 1
    /\ Cardinality(GroupAt(probe.scratch, <<probe.r, probe.c>>)) >= 2
    /\ LET stoned == [probe.pre.board EXCEPT ![<<probe.r, probe.c>>] = probe.color]
       IN LibertiesOf(stoned, GroupAt(stoned, <<probe.r, probe.c>>)) = {}

\* The stones of grid b whose group has no liberty on b.
Breathless(b) == {p \in DOMAIN b : b[p] # "." /\ LibertiesOf(b, GroupAt(b, p)) = {}}

\* The last placement started from a grid where every group had a liberty,
\* and analyze_move reports suicide = false for it.
SoundMove ==
    /\ Breathless(last.pre.board) = {}
    /\ ~analyze_move(board_size, last.pre.board, last.pre.ko_point, last.pre.history,
                     last.r, last.c, last.color).result.suicide

\* C30 as stated: if every group has a liberty before a successful play_move
\* and analyze_move reports suicide = false for the move, every group of both
\* colours has a liberty after it; and a group without a liberty (left by the
\* setup stones or by a suicide placement) is never removed by a later
\* play_move.
C30_Original ==
    JustPlayed =>
        /\ SoundMove => Breathless(board) = {}
        /\ \A p \in Breathless(game) \cup Breathless(last.pre.board) : board[p] # "."

\* C30 as amended: if every group has a liberty before a successful play_move
\* and analyze_move reports suicide = false for the move, every group of both
\* colours has a liberty after it; and a play_move never removes a group that
\* has no liberty in the state the move is made in (such a group can be
\* captured only after the capture of a neighbour has given it a liberty).
C30_MovesKeepBreathlessGroups ==
    JustPlayed =>
        /\ SoundMove => Breathless(board) = {}
        /\ \A p \in Breathless(last.pre.board) : board[p] = last.pre.board[p]

C30_Witness ==
    /\ JustPlayed
    /\ Breathless(last.pre.board) # {}
    /\ Removed # {}
    /\ \E p \in Breathless(last.pre.board) : p \notin Breathless(board)

\* process_sgf is under way or has ended; the number of nodes it has visited;
\* the state node i was visited in.
Processing == last.op = "process_sgf"

Visited == Len(last.steps)

Before(i) == IF i = 1 THEN last.pre ELSE last.steps[i - 1]

IsPass(node) == node.color \in Colors /\ node.move = None

IsMove(node) == node.color \in Colors /\ node.move # None

\* The cell of the grid an SGF (row, col) names: SGF rows count from the
\* bottom, grid rows from the top.
GridCell(p) == <<(board_size - 1) - p[1], p[2]>>

\* C31: a pass entry of the main sequence driven by process_sgf has no effect:
\* grid, history and ko marker are after it what they were before it, so a ko
\* marker in force before the pass still refuses the move that follows the
\* pass when that move is at the marker.
C31_PassChangesNothing ==
    Processing =>
        \A i \in 1 .. Visited :
            IsPass(main_sequence[i]) =>
                /\ last.steps[i] = Before(i)
                /\ (/\ i < Visited
                    /\ IsMove(main_sequence[i + 1])
                    /\ Before(i).ko_point # None
                    /\ GridCell(main_sequence[i + 1].move) = Before(i).ko_point)
                   => /\ last.stopped
                      /\ Visited = i + 1
                      /\ Now = Before(i)

\* A move sets the ko marker, a pass follows, and the next move is at the
\* marker.
C31_Witness ==
    /\ Processing
    /\ \E i \in 2 .. Visited - 1 :
          /\ IsMove(main_sequence[i - 1])
          /\ Before(i - 1).ko_point = None
          /\ Before(i).ko_point # None
          /\ IsPass(main_sequence[i])
          /\ IsMove(main_sequence[i + 1])
          /\ GridCell(main_sequence[i + 1].move) = Before(i).ko_point
          /\ last.stopped

\* The state play_move leaves when the nodes of a sequence are applied in
\* order from state st, a node that is not a move applying nothing.
RECURSIVE Replay(_, _)
Replay(st, nodes) ==
    IF nodes = <<>> THEN st
    ELSE LET before == Replay(st, SubSeq(nodes, 1, Len(nodes) - 1))
             node == nodes[Len(nodes)]
         IN IF IsMove(node)
              THEN LET p == GridCell(node.move)
                       res == play_move(board_size, before.board, before.ko_point,
                                        before.history, p[1], p[2], node.color)
                   IN [board |-> res.board, ko_point |-> res.ko_point,
                       history |-> res.history]
              ELSE before

\* play_move refuses node k of the main sequence in the state the nodes
\* before it lead to.
Rejected(k) ==
    /\ IsMove(main_sequence[k])
    /\ LET before == Replay(last.pre, SubSeq(main_sequence, 1, k - 1))
           p == GridCell(main_sequence[k].move)
       IN play_check(board_size, before.board, before.ko_point, p[1], p[2]) # "none"

\* The first node play_move refuses, or one past the end when it refuses none.
FirstRejected ==
    IF \E k \in 1 .. Len(main_sequence) : Rejected(k)
      THEN CHOOSE k \in 1 .. Len(main_sequence) :
              Rejected(k) /\ \A j \in 1 .. k - 1 : ~Rejected(j)
      ELSE Len(main_sequence) + 1

\* The history records of the moves among the nodes of a sequence, in order.
RECURSIVE MoveRecords(_)
MoveRecords(nodes) ==
    IF nodes = <<>> THEN <<>>
    ELSE LET rest == MoveRecords(Tail(nodes))
             node == Head(nodes)
         IN IF IsMove(node)
              THEN << <<GridCell(node.move), node.color>> >> \o rest
              ELSE rest

\* C32: process_sgf applies the moves of the main sequence in order and stops
\* at the first one play_move rejects: it visits no node after that one, and
\* the grid, the history and the ko marker it has reached are those of
\* applying the nodes visited before that move and nothing else.
C32_StopsAtFirstRejectedMove ==
    Processing =>
        LET k == FirstRejected
            applied == SubSeq(main_sequence, 1, IF Visited < k THEN Visited ELSE k - 1)
        IN /\ Visited <= k
           /\ last.stopped <=> Visited = k
           /\ Now = Replay(last.pre, applied)
           /\ history = last.pre.history \o MoveRecords(applied)

\* The loop stopped after applying a move, and a node it never visited is a
\* move play_move would accept in the state the loop left.
C32_Witness ==
    /\ Processing
    /\ last.stopped
    /\ Len(history) >= 1
    /\ \E j \in Visited + 1 .. Len(main_sequence) :
          /\ IsMove(main_sequence[j])
          /\ LET p == GridCell(main_sequence[j].move)
             IN play_check(board_size, board, ko_point, p[1], p[2]) = "none"
\* The threads whose query_analysis has returned a response, and those whose
\* call is over (returned or raised).
Returned(t) == callers[t].pc = "done" /\ callers[t].outcome = "returned"

Over(t) == callers[t].pc = "done"

\* The ids the engine processes have read so far.
ReceivedIds == UNION {engines[p].received : p \in 1 .. Len(engines)}

\* C33: query_analysis returns only a response that carries the id drawn for
\* that call: whatever the order in which the engine's responses arrive, no
\* caller receives a response whose id belongs to another call.
C33_ResponseCarriesOwnId ==
    \A t \in Threads :
        Returned(t) =>
            /\ callers[t].response.id = callers[t].query_id
            /\ \A u \in Threads \ {t} : callers[t].response.id # callers[u].query_id

\* A call has returned while the call that drew its id before it, and whose
\* request the engine has read too, still waits.
C33_Witness ==
    \E t \in Threads, u \in Threads :
        /\ Returned(t)
        /\ callers[u].pc = "wait"
        /\ callers[u].query_id < callers[t].query_id
        /\ callers[u].query_id \in ReceivedIds

\* C34: query_analysis returns a response only when it is final
\* (isDuringSearch present and false) and holds no error; a response with
\* isDuringSearch true or missing is never returned; and when the response the
\* call finds for its id holds an error, the call raises the 400 error, final
\* or not, instead of returning it.
C34_OnlyFinalResponsesReturned ==
    \A t \in Threads :
        /\ Returned(t) => /\ callers[t].response.isDuringSearch = "false"
                          /\ ~callers[t].response.error
        /\ (Over(t) /\ callers[t].outcome = "400") => callers[t].response.error
        /\ (Over(t) /\ callers[t].response.error) => callers[t].outcome = "400"

\* One call has raised 400 on a response that was final too, and another has
\* returned the second line the engine wrote.
C34_Witness ==
    \E t \in Threads, u \in Threads :
        /\ Over(t)
        /\ callers[t].outcome = "400"
        /\ callers[t].response.isDuringSearch = "false"
        /\ Returned(u)
        /\ \E p \in 1 .. Len(engines) : engines[p].sent = 2 /\ engines[p].stdout = <<>>

\* The ways a call of query_analysis ends.
Outcomes == {"returned", "RuntimeError", "400", "503", "504"}

C36_NoResponseLeaked ==
    \A t \in Threads :
        (Over(t) /\ callers[t].query_id # NoId) =>
            callers[t].query_id \notin DOMAIN response_dict

\* The steps of query_analysis made with the lock held.
Section == {"write", "flush", "stop", "terminate", "start", "popen", "raise"}

Inside == {t \in Threads : callers[t].pc \in Section}

Live == {p \in 1 .. Len(engines) : engines[p].live}

\* At most one thread is between the stdin write and the end of the restart,
\* what is written to a live process and not yet flushed is the one line of
\* that thread, and at most one process is alive while is_running is true.
OneAtATime ==
    /\ Cardinality(Inside) <= 1
    /\ \A t \in Inside : lock = t
    /\ \A p \in Live :
          engines[p].pending # <<>> =>
              \E t \in Inside : engines[p].pending = <<callers[t].query_id>>
    /\ is_running => Cardinality(Live) <= 1

\* A step of start_engine made while the engine is running starts no process,
\* and a step of stop_engine made while it is not running changes nothing: the
\* call returns.
CallsAreIdempotent ==
    /\ is_running => Len(engines') = Len(engines)
    /\ \A t \in Threads :
          (callers[t].pc = "stop" /\ callers'[t].pc # "stop" /\ ~is_running) =>
              /\ callers'[t].pc = "start"
              /\ UNCHANGED <<is_running, process, engines, readers>>
    /\ \A t \in Threads :
          (callers[t].pc = "start" /\ callers'[t].pc # "start" /\ is_running) =>
              /\ callers'[t].pc = "raise"
              /\ UNCHANGED <<is_running, process, engines, readers>>
    /\ (lifespan = "serving" /\ lifespan' \notin {"serving", "terminate", "stopped"}) =>
              /\ lifespan' = "served"
              /\ UNCHANGED <<is_running, process, engines, readers>>
    /\ (lifespan \in {"serving", "served"} /\ lifespan' # lifespan /\ ~is_running) =>
              /\ lifespan' = "stopped"
              /\ UNCHANGED <<is_running, process, engines, readers>>

\* C37: requests are written one at a time: at most one thread is inside the
\* stdin write and flush, and the restart that follows a broken pipe, so two
\* request lines are never interleaved and at most one engine process is alive
\* while is_running is true; start_engine while running starts no second
\* process and stop_engine while not running does nothing.
C37_RequestsWrittenOneAtATime == []OneAtATime /\ [][CallsAreIdempotent]_vars

\* One thread restarts the engine after a broken pipe while another waits for
\* the lock, start_engine having been called again while the engine ran.
C37_Witness ==
    \E t \in Threads, u \in Threads :
        /\ callers[t].pc = "popen"
        /\ callers[u].pc = "acquire"
        /\ lifespan = "served"
====
